---- MODULE Spec2Model ----
(***************************************************************************)
(* State-machine model of backend/server.py (RAGineer API): the FAISS      *)
(* vector store manager, the document upload / delete pipeline, the        *)
(* retrieval-augmented chat handler and the chat-session endpoints.        *)
(*                                                                         *)
(* Every request handler is a sequence of atomic steps, one per awaited    *)
(* database / file / collaborator operation, run by the coroutine that     *)
(* serves the request.  Collaborator failures (embedding service, index    *)
(* load / save, file system, record store, language model) are environment *)
(* inputs chosen at the step where the call is made.  The specifications   *)
(* SpecDocs, SpecChat, SpecSessions, SpecAuth, SpecListing, SpecSearch,    *)
(* SpecTitles, SpecEmbed and SpecRoles drive the handlers with the         *)
(* requests of one scenario each, one request at a time; SpecDeleteRace,   *)
(* SpecSessionRace and SpecRegister interleave the steps of requests       *)
(* served by two coroutines of one process, and SpecWorkers those of two   *)
(* server processes that share the database and the durable index.         *)
(***************************************************************************)
EXTENDS Integers, Sequences, FiniteSets, TLC

(***************************************************************************)
(* Bounds of the model.                                                    *)
(***************************************************************************)
\* uploads that draw a document id in one run of SpecDocs or SpecAuth
MaxDocs == 2
\* chunks the text splitter cuts one document into, at most
MaxChunks == 2
\* uploads that draw a document id in one run of SpecChat or SpecSessions
MaxCorpus == 2
\* chat requests that pass authentication in one run of SpecChat
MaxChats == 1
\* chat requests that pass authentication in one run of SpecSessions
MaxTurns == 2

\* documents uploaded, and sessions opened, in one run of SpecDeleteRace
MaxRace == 1
\* chat requests started in SpecSessionRace
MaxRaceChats == 2
\* the largest k of a direct call of search in SpecSearch
MaxK == 2
\* registrations that reach their insert in one run of SpecRegister
MaxRegs == 2
\* clock ticks in a second: the resolution of datetime.now() in the model
TicksPerSecond == 2

\* the coroutines that serve requests concurrently in the first server
\* process
Procs == {1, 2}

\* a coroutine of a second server process started from the same module: it
\* shares MongoDB, UPLOAD_DIR and FAISS_INDEX_PATH and has a vector_manager
\* of its own
Peer == 3

AllProcs == Procs \cup {Peer}

Workers == {1, 2}

WorkerOf(p) == IF p = Peer THEN 2 ELSE 1

(***************************************************************************)
(* Program constants.                                                      *)
(***************************************************************************)
\* metadata doc_id of the placeholder entry ("system"); document and
\* session ids are the positive numbers uuid4() is modelled by
SYSTEM_DOC_ID == 0
\* k of vector_manager.search(request.message, k=5, ...)
SEARCH_K == 5
\* request.message[:50]
TITLE_MAX == 50

Roles == {"admin", "engineer", "technician", "viewer"}

ROLE_PERMISSIONS ==
    [admin      |-> {"upload_docs", "delete_docs", "manage_users", "query_all", "view_all"},
     engineer   |-> {"upload_docs", "query_all", "view_all"},
     technician |-> {"query_sops", "view_sops"},
     viewer     |-> {"query_limited", "view_limited"}]

DocTypes == {"sop", "manual", "compliance", "other"}

allowed_extensions == {".pdf", ".docx", ".txt"}

UserIds == {"u_admin", "u_eng", "u_tech", "u_view"}

VARIABLES
    users,          \* db.users: user id -> [email, role, is_active]
    uuid_user,      \* number of the next user id uuid4() returns
    documents,      \* db.documents: doc id -> [title, doc_type, chunk_count]
    uploads,        \* UPLOADS_PATH: doc ids whose raw file is stored
    faiss_index,    \* FAISS_INDEX_PATH: the durable index
    vector_store,   \* vector_manager.vector_store: the in-memory handle of
                    \* each server process
    chat_sessions,  \* db.chat_sessions: session id -> record
    chat_messages,  \* db.chat_messages, in insertion order
    clock,          \* datetime.now(timezone.utc)
    uuid_doc,       \* next document id uuid4() returns
    uuid_sess,      \* next session id uuid4() returns
    n_chats,        \* chat requests that passed authentication so far
    req,            \* per coroutine: the request it serves and its locals
    response,       \* the response of the request that has just completed
    pipeline_log,   \* history: doc id -> upload steps run for it, with outcome
    delete_log      \* history: per document / session id, the deletions that
                    \* reported success

vars == <<users, uuid_user, documents, uploads, faiss_index, vector_store, chat_sessions,
          chat_messages, clock, uuid_doc, uuid_sess, n_chats, req, response,
          pipeline_log, delete_log>>

(***************************************************************************)
(* Small helpers.                                                          *)
(***************************************************************************)
Min(a, b) == IF a < b THEN a ELSE b

Range(s) == {s[i] : i \in 1..Len(s)}

Take(s, n) == SubSeq(s, 1, Min(n, Len(s)))

\* datetime.isoformat(): "...HH:MM:SS+00:00" when the microsecond is 0 and
\* "...HH:MM:SS.ffffff+00:00" otherwise; t counts clock ticks
isoformat(t) ==
    [sec |-> t \div TicksPerSecond,
     frac |-> (t % TicksPerSecond) # 0,
     micro |-> t % TicksPerSecond]

\* the order of two isoformat strings as strings: the fixed-width fields up
\* to the seconds first; then "+" (no fraction) sorts before "."; then the
\* six digits of the fraction
StrBefore(a, b) ==
    \/ a.sec < b.sec
    \/ /\ a.sec = b.sec
       /\ \/ ~a.frac /\ b.frac
          \/ a.frac /\ b.frac /\ a.micro < b.micro

(***************************************************************************)
(* Authentication and authorisation helpers.                               *)
(***************************************************************************)
NoUser == [id |-> "none", role |-> "none"]

\* the users on record when the service starts, one of each role
EmailOf(u) ==
    CASE u = "u_admin" -> "admin@plant.com"
      [] u = "u_eng" -> "eng@plant.com"
      [] u = "u_tech" -> "tech@plant.com"
      [] OTHER -> "view@plant.com"

InitialUsers ==
    [u \in UserIds |->
       [email |-> EmailOf(u),
        role |-> CASE u = "u_admin" -> "admin"
                   [] u = "u_eng" -> "engineer"
                   [] u = "u_tech" -> "technician"
                   [] OTHER -> "viewer",
        is_active |-> TRUE]]

\* an authentication that would take the role from the token's payload, the
\* token being the one issued when the user registered
get_current_user_token_role(sub) ==
    IF sub \notin DOMAIN users
    THEN [ok |-> FALSE, status |-> 401, detail |-> "User not found", user |-> NoUser]
    ELSE IF ~users[sub].is_active
    THEN [ok |-> FALSE, status |-> 401, detail |-> "User is deactivated", user |-> NoUser]
    ELSE [ok |-> TRUE, status |-> 0, detail |-> "",
          user |-> [id |-> sub, role |-> InitialUsers[sub].role]]

\* an authentication that would not look at is_active
get_current_user_any(sub) ==
    IF sub \notin DOMAIN users
    THEN [ok |-> FALSE, status |-> 401, detail |-> "User not found", user |-> NoUser]
    ELSE [ok |-> TRUE, status |-> 0, detail |-> "",
          user |-> [id |-> sub, role |-> users[sub].role]]

\* get_current_user: the user record the token's sub names, or a 401
get_current_user(sub) ==
    IF sub \notin DOMAIN users
    THEN [ok |-> FALSE, status |-> 401, detail |-> "User not found", user |-> NoUser]
    ELSE IF ~users[sub].is_active
    THEN [ok |-> FALSE, status |-> 401, detail |-> "User is deactivated", user |-> NoUser]
    ELSE [ok |-> TRUE, status |-> 0, detail |-> "",
          user |-> [id |-> sub, role |-> users[sub].role]]

check_permission_always(user, permission) == TRUE

\* check_permission: TRUE when it returns, FALSE when it raises the 403
check_permission(user, permission) ==
    permission \in ROLE_PERMISSIONS[user.role]

(***************************************************************************)
(* The vector store (VectorStoreManager).                                  *)
(***************************************************************************)
NoStore == [present |-> FALSE, entries |-> <<>>]

Store(entries) == [present |-> TRUE, entries |-> entries]

\* metadatas=[{"doc_id": "system", "chunk_index": 0, "title": "System"}];
\* the entry carries no doc_type (metadata.get("doc_type") is None)
Placeholder ==
    [doc_id |-> SYSTEM_DOC_ID, title |-> "System", doc_type |-> "None", chunk_index |-> 0]

\* what the collaborators do during one synchronous index call
Envs == [load_ok : BOOLEAN, embed_ok : BOOLEAN, save_ok : BOOLEAN]

\* a fallback that would build the index from no text at all
FallbackStoreEmpty(vs, disk, env) ==
    IF env.embed_ok
    THEN [ok |-> TRUE, vs |-> Store(<<>>), disk |-> disk]
    ELSE [ok |-> FALSE, vs |-> vs, disk |-> disk]

\* the except branch of load_or_create_store: a fresh index, not saved
FallbackStore(vs, disk, env) ==
    IF env.embed_ok
    THEN [ok |-> TRUE, vs |-> Store(<<Placeholder>>), disk |-> disk]
    ELSE [ok |-> FALSE, vs |-> vs, disk |-> disk]

load_or_create_store(vs, disk, env) ==
    IF vs.present THEN [ok |-> TRUE, vs |-> vs, disk |-> disk]
    ELSE IF disk.present
    THEN IF env.load_ok
         THEN [ok |-> TRUE, vs |-> Store(disk.entries), disk |-> disk]
         ELSE FallbackStore(vs, disk, env)
    ELSE IF env.embed_ok /\ env.save_ok
         THEN [ok |-> TRUE, vs |-> Store(<<Placeholder>>), disk |-> Store(<<Placeholder>>)]
         ELSE FallbackStore(vs, disk, env)

\* load_or_create_store takes the branch that loads the durable index and
\* FAISS.load_local raises
LoadFails(vs, disk, env) == ~vs.present /\ disk.present /\ ~env.load_ok

\* a metadatas list that would number every chunk 0
ChunkMetadatasUnnumbered(doc_id, title, doc_type, n) ==
    [i \in 1..n |-> [doc_id |-> doc_id, title |-> title, doc_type |-> doc_type,
                     chunk_index |-> 0]]

\* the metadatas list of add_document, one per chunk
ChunkMetadatas(doc_id, title, doc_type, n) ==
    [i \in 1..n |-> [doc_id |-> doc_id, title |-> title, doc_type |-> doc_type,
                     chunk_index |-> i - 1]]

\* an add_document whose index would take the chunks before they are embedded
add_document_before_embedding(vs, disk, doc_id, title, nchunks, doc_type, env) ==
    LET L == load_or_create_store(vs, disk, env) IN
    IF ~L.ok
    THEN [ok |-> FALSE, vs |-> L.vs, disk |-> L.disk, count |-> 0,
          added |-> FALSE, saved |-> FALSE]
    ELSE LET vs2 == Store(L.vs.entries \o ChunkMetadatas(doc_id, title, doc_type, nchunks)) IN
         IF ~env.embed_ok \/ ~env.save_ok
         THEN [ok |-> FALSE, vs |-> vs2, disk |-> L.disk, count |-> 0,
               added |-> TRUE, saved |-> FALSE]
         ELSE [ok |-> TRUE, vs |-> vs2, disk |-> Store(vs2.entries), count |-> nchunks,
               added |-> TRUE, saved |-> TRUE]

\* add_document: [ok, vs, disk, count, added, saved]
add_document(vs, disk, doc_id, title, nchunks, doc_type, env) ==
    LET L == load_or_create_store(vs, disk, env) IN
    IF ~L.ok \/ ~env.embed_ok
    THEN [ok |-> FALSE, vs |-> L.vs, disk |-> L.disk, count |-> 0,
          added |-> FALSE, saved |-> FALSE]
    ELSE LET vs2 == Store(L.vs.entries \o ChunkMetadatas(doc_id, title, doc_type, nchunks)) IN
         IF ~env.save_ok
         THEN [ok |-> FALSE, vs |-> vs2, disk |-> L.disk, count |-> 0,
               added |-> TRUE, saved |-> FALSE]
         ELSE [ok |-> TRUE, vs |-> vs2, disk |-> Store(vs2.entries), count |-> nchunks,
               added |-> TRUE, saved |-> TRUE]

\* the order in which a query's distances rank n index entries: the oldest
\* entry nearest, or the newest entry nearest
OrderKinds == {"oldest_first", "newest_first"}

Order(n, kind) ==
    IF kind = "oldest_first" THEN [i \in 1..n |-> i] ELSE [i \in 1..n |-> n + 1 - i]

\* store.similarity_search_with_score(query, k): the k nearest entries,
\* nearest first, each with its distance
similarity_search_with_score(entries, kind, k) ==
    LET ord == Order(Len(entries), kind) IN
    [i \in 1..Min(k, Len(entries)) |-> [doc |-> entries[ord[i]], score |-> i - 1]]

\* a search that would filter the whole index before cutting to k
search_filter_all(vs, disk, kind, k, doc_types, env) ==
    LET L == load_or_create_store(vs, disk, env) IN
    IF ~L.ok \/ ~env.embed_ok
    THEN [ok |-> FALSE, vs |-> L.vs, disk |-> L.disk, results |-> <<>>]
    ELSE [ok |-> TRUE, vs |-> L.vs, disk |-> L.disk,
          results |->
            IF doc_types # {}
            THEN Take(SelectSeq(similarity_search_with_score(L.vs.entries, kind,
                                                             Len(L.vs.entries)),
                                LAMBDA x : x.doc.doc_type \in doc_types), k)
            ELSE similarity_search_with_score(L.vs.entries, kind, k)]

\* search: doc_types = {} stands for None
search(vs, disk, kind, k, doc_types, env) ==
    LET L == load_or_create_store(vs, disk, env) IN
    IF ~L.ok \/ ~env.embed_ok
    THEN [ok |-> FALSE, vs |-> L.vs, disk |-> L.disk, results |-> <<>>]
    ELSE [ok |-> TRUE, vs |-> L.vs, disk |-> L.disk,
          results |->
            IF doc_types # {}
            THEN Take(SelectSeq(similarity_search_with_score(L.vs.entries, kind, k * 2),
                                LAMBDA x : x.doc.doc_type \in doc_types), k)
            ELSE similarity_search_with_score(L.vs.entries, kind, k)]

(***************************************************************************)
(* Requests.                                                               *)
(***************************************************************************)
NoText == [kind |-> "none", nchunks |-> 0]

\* what extract_text_from_* returns: "", whitespace only, or text that the
\* splitter cuts into nchunks chunks
Texts ==
    {[kind |-> "empty", nchunks |-> 0], [kind |-> "blank", nchunks |-> 0]}
    \cup {[kind |-> "words", nchunks |-> n] : n \in 1..MaxChunks}

\* text_content.strip()
strip(text) == IF text.kind = "blank" THEN [kind |-> "empty", nchunks |-> 0] ELSE text

NoFile == [ext |-> "", extract_ok |-> TRUE, text |-> NoText]

NoMessage == [text |-> "", len |-> 0]

NoContent == [kind |-> "none", text |-> NoMessage, titles |-> <<>>]

NoSources == [present |-> FALSE, items |-> <<>>]

\* a UserUpdate: the fields that are not None, and their values
NoUpdate == [fields |-> {}, role |-> "viewer", is_active |-> TRUE]

\* every collaborator of an index call answers
NoEnv == [load_ok |-> TRUE, embed_ok |-> TRUE, save_ok |-> TRUE]

\* the empty string, as a context
NoContext == [sentinel |-> FALSE, parts |-> <<>>]

NoQuery == [kind |-> "", k |-> 0, doc_types |-> {}]

IdleReq ==
    [op |-> "idle", pc |-> "idle", status |-> 0, detail |-> "", user |-> NoUser,
     \* the subject of the bearer token (the email of a login)
     sub |-> "",
     \* register: user.email, user.role
     email |-> "", role |-> "",
     \* upload_document, delete_document
     doc_id |-> 0, file |-> NoFile, doc_type |-> "", title |-> "", chunk_count |-> 0,
     \* chat, get_session_messages, delete_session
     message |-> NoMessage, carried_sid |-> 0, sid |-> 0, results |-> <<>>, i |-> 0,
     seen |-> {}, sources |-> <<>>, context_parts |-> <<>>, gen_ok |-> TRUE,
     context |-> NoContext,
     \* the clock reading taken for the record the next database call writes
     now |-> 0,
     content |-> NoContent, listing |-> <<>>,
     \* list_users, update_user, delete_user
     target |-> "", update |-> NoUpdate, user_list |-> <<>>,
     \* list_documents: the ids of the records returned
     docs |-> {},
     \* a call of vector_manager.search: its arguments
     query |-> NoQuery,
     \* history: what the request has changed, what its lookup found, the
     \* messages it inserted, message_count around its update
     wrote |-> {}, found |-> "", inserted |-> <<>>, count_before |-> 0, count_after |-> 0,
     \* history: the request's index call found no handle, found a durable
     \* index, and FAISS.load_local raised
     load_failed |-> FALSE,
     \* history: what the collaborators did during the index call that
     \* failed the request
     env |-> NoEnv]

\* the coroutine serves no request
Free(p) == req[p].pc = "idle"

\* the request goes on with locals r
Continue(p, r) ==
    /\ req' = [req EXCEPT ![p] = r]
    /\ response' = IdleReq

\* the request ends with this response
Complete(p, r, status, detail) ==
    /\ req' = [req EXCEPT ![p] = IdleReq]
    /\ response' = [r EXCEPT !.pc = "done", !.status = status, !.detail = detail]

\* f"Permission denied: {permission}"
PermissionDenied(permission) ==
    CASE permission = "upload_docs" -> "Permission denied: upload_docs"
      [] permission = "delete_docs" -> "Permission denied: delete_docs"
      [] permission = "manage_users" -> "Permission denied: manage_users"
      [] OTHER -> "Permission denied"

\* get_current_user, then check_permission when the handler starts with one
\* (permission "" stands for none)
Authorize(sub, permission) ==
    LET auth == get_current_user(sub) IN
    IF ~auth.ok THEN auth
    ELSE IF permission # "" /\ ~check_permission(auth.user, permission)
    THEN [ok |-> FALSE, status |-> 403, detail |-> PermissionDenied(permission),
          user |-> auth.user]
    ELSE auth

\* the handler is entered with locals r, or the request is refused
Enter(p, op, sub, permission, r) ==
    LET a == Authorize(sub, permission) IN
    IF a.ok THEN Continue(p, [r EXCEPT !.op = op, !.user = a.user, !.sub = sub])
    ELSE Complete(p, [IdleReq EXCEPT !.op = op, !.user = a.user, !.sub = sub],
                  a.status, a.detail)

docVars == <<documents, uploads, faiss_index, vector_store, uuid_doc, pipeline_log>>

chatVars == <<chat_sessions, chat_messages, clock, uuid_sess, n_chats>>

(***************************************************************************)
(* POST /documents/upload                                                  *)
(***************************************************************************)
\* the order of the steps of upload_document
UploadPipeline == <<"validate", "add_document", "store_file", "persist_record">>

AfterStepSwallow(step, ok) ==
    LET i == CHOOSE j \in 1..Len(UploadPipeline) : UploadPipeline[j] = step IN
    IF i < Len(UploadPipeline) THEN UploadPipeline[i + 1] ELSE "done"

\* a step that raises ends the request; one that returns is followed by the next
AfterStep(step, ok) ==
    LET i == CHOOSE j \in 1..Len(UploadPipeline) : UploadPipeline[j] = step IN
    IF ~ok THEN "done"
    ELSE IF i < Len(UploadPipeline) THEN UploadPipeline[i + 1] ELSE "done"

ValidateUploadNoStrip(file) ==
    IF file.ext \notin allowed_extensions
    THEN [ok |-> FALSE, status |-> 400, detail |-> "File type not supported"]
    ELSE IF ~file.extract_ok
    THEN [ok |-> FALSE, status |-> 400, detail |-> "Could not extract text from file"]
    ELSE IF file.text.kind = "empty"
    THEN [ok |-> FALSE, status |-> 400, detail |-> "No text content found in file"]
    ELSE [ok |-> TRUE, status |-> 0, detail |-> ""]

\* the checks of upload_document before a document id is drawn
ValidateUpload(file) ==
    IF file.ext \notin allowed_extensions
    THEN [ok |-> FALSE, status |-> 400, detail |-> "File type not supported"]
    ELSE IF ~file.extract_ok
    THEN [ok |-> FALSE, status |-> 400, detail |-> "Could not extract text from file"]
    ELSE IF strip(file.text).kind = "empty"
    THEN [ok |-> FALSE, status |-> 400, detail |-> "No text content found in file"]
    ELSE [ok |-> TRUE, status |-> 0, detail |-> ""]

\* uploads that will still draw a document id
UploadsInFlight == {q \in AllProcs : req[q].op = "upload" /\ req[q].doc_id = 0}

StartUpload(p, sub, file, doc_type, title, limit) ==
    /\ Free(p)
    /\ uuid_doc + Cardinality(UploadsInFlight) <= limit
    /\ Enter(p, "upload", sub, "upload_docs",
             [IdleReq EXCEPT !.pc = UploadPipeline[1], !.file = file,
                             !.doc_type = doc_type, !.title = title])
    /\ UNCHANGED <<users, uuid_user, delete_log, docVars, chatVars>>

\* the step ran with outcome ok: the request goes on or ends
UploadStepDone(p, r, step, ok) ==
    IF AfterStep(step, ok) = "done"
    THEN Complete(p, r, IF ok THEN 200 ELSE 500, IF ok THEN "" ELSE "Internal Server Error")
    ELSE Continue(p, [r EXCEPT !.pc = AfterStep(step, ok)])

UploadValidate(p) ==
    /\ req[p].op = "upload" /\ req[p].pc = "validate"
    /\ LET r == req[p]
           v == ValidateUpload(r.file) IN
       IF v.ok
       \* doc_id = str(uuid.uuid4())
       THEN /\ Continue(p, [r EXCEPT !.pc = AfterStep("validate", TRUE), !.doc_id = uuid_doc])
            /\ uuid_doc' = uuid_doc + 1
       ELSE /\ Complete(p, r, v.status, v.detail)
            /\ UNCHANGED uuid_doc
    /\ UNCHANGED <<users, uuid_user, delete_log, documents, uploads, faiss_index, vector_store, pipeline_log,
                   chatVars>>

UploadAddDocument(p, env) ==
    /\ req[p].op = "upload" /\ req[p].pc = "add_document"
    /\ LET r == req[p]
           a == add_document(vector_store[WorkerOf(p)], faiss_index, r.doc_id, r.title,
                             r.file.text.nchunks, r.doc_type, env)
           w == (IF a.vs # vector_store[WorkerOf(p)] THEN {"index"} ELSE {})
                \cup (IF a.disk # faiss_index THEN {"disk"} ELSE {}) IN
       /\ vector_store' = [vector_store EXCEPT ![WorkerOf(p)] = a.vs]
       /\ faiss_index' = a.disk
       /\ pipeline_log' = [pipeline_log EXCEPT ![r.doc_id] =
              @ \o <<[step |-> "index_add", ok |-> a.added]>>
                \o (IF a.added THEN <<[step |-> "index_save", ok |-> a.saved]>> ELSE <<>>)]
       /\ UploadStepDone(p, [r EXCEPT !.chunk_count = a.count, !.wrote = @ \cup w,
                                      !.env = IF a.ok THEN NoEnv ELSE env,
                                      !.load_failed =
                                          LoadFails(vector_store[WorkerOf(p)],
                                                    faiss_index, env)],
                         "add_document", a.ok)
    /\ UNCHANGED <<users, uuid_user, delete_log, documents, uploads, uuid_doc, chatVars>>

\* aiofiles.open(file_path, 'wb') and write
UploadStoreFile(p, ok) ==
    /\ req[p].op = "upload" /\ req[p].pc = "store_file"
    /\ LET r == req[p] IN
       /\ uploads' = IF ok THEN uploads \cup {r.doc_id} ELSE uploads
       /\ pipeline_log' = [pipeline_log EXCEPT ![r.doc_id] =
                              Append(@, [step |-> "store_file", ok |-> ok])]
       /\ UploadStepDone(p, [r EXCEPT !.wrote = IF ok THEN @ \cup {"file"} ELSE @],
                         "store_file", ok)
    /\ UNCHANGED <<users, uuid_user, delete_log, documents, faiss_index, vector_store, uuid_doc, chatVars>>

\* db.documents.insert_one(doc_record)
UploadPersistRecord(p, ok) ==
    /\ req[p].op = "upload" /\ req[p].pc = "persist_record"
    /\ LET r == req[p] IN
       /\ documents' =
              IF ok
              THEN [d \in DOMAIN documents \cup {r.doc_id} |->
                      IF d = r.doc_id
                      THEN [title |-> r.title, doc_type |-> r.doc_type,
                            chunk_count |-> r.chunk_count]
                      ELSE documents[d]]
              ELSE documents
       /\ pipeline_log' = [pipeline_log EXCEPT ![r.doc_id] =
                              Append(@, [step |-> "persist_record", ok |-> ok])]
       /\ UploadStepDone(p, [r EXCEPT !.wrote = IF ok THEN @ \cup {"record"} ELSE @],
                         "persist_record", ok)
    /\ UNCHANGED <<users, uuid_user, delete_log, uploads, faiss_index, vector_store, uuid_doc, chatVars>>

(***************************************************************************)
(* DELETE /documents/{doc_id}                                              *)
(***************************************************************************)
StartDeleteDocument(p, sub, doc_id) ==
    /\ Free(p)
    /\ Enter(p, "delete_document", sub, "delete_docs",
             [IdleReq EXCEPT !.pc = "find", !.doc_id = doc_id])
    /\ UNCHANGED <<users, uuid_user, delete_log, docVars, chatVars>>

\* db.documents.find_one, then file_path.unlink()
DeleteDocumentFind(p) ==
    /\ req[p].op = "delete_document" /\ req[p].pc = "find"
    /\ LET r == req[p] IN
       IF r.doc_id \notin DOMAIN documents
       THEN /\ Complete(p, r, 404, "Document not found")
            /\ UNCHANGED uploads
       ELSE /\ Continue(p, [r EXCEPT !.pc = "delete_one",
                                     !.wrote = IF r.doc_id \in uploads
                                               THEN @ \cup {"file"} ELSE @])
            /\ uploads' = uploads \ {r.doc_id}
    /\ UNCHANGED <<users, uuid_user, delete_log, documents, faiss_index, vector_store, uuid_doc, pipeline_log,
                   chatVars>>

\* db.documents.delete_one
DeleteDocumentRemove(p) ==
    /\ req[p].op = "delete_document" /\ req[p].pc = "delete_one"
    /\ LET r == req[p] IN
       /\ documents' = [d \in DOMAIN documents \ {r.doc_id} |-> documents[d]]
       /\ Complete(p, [r EXCEPT !.wrote = IF r.doc_id \in DOMAIN documents
                                          THEN @ \cup {"record"} ELSE @],
                   200, "Document deleted")
       /\ delete_log' = [delete_log EXCEPT !.document[r.doc_id] = @ + 1]
    /\ UNCHANGED <<users, uuid_user, uploads, faiss_index, vector_store, uuid_doc, pipeline_log,
                   chatVars>>

(***************************************************************************)
(* vector_manager.search(query, k, doc_types) called on its own.           *)
(***************************************************************************)
SearchCall(p, kind, k, doc_types, env) ==
    /\ Free(p)
    /\ LET s == search(vector_store[WorkerOf(p)], faiss_index, kind, k, doc_types, env) IN
       /\ vector_store' = [vector_store EXCEPT ![WorkerOf(p)] = s.vs]
       /\ faiss_index' = s.disk
       /\ Complete(p, [IdleReq EXCEPT !.op = "search", !.results = s.results,
                                      !.query = [kind |-> kind, k |-> k,
                                                 doc_types |-> doc_types]],
                   IF s.ok THEN 200 ELSE 500, "")
    /\ UNCHANGED <<users, uuid_user, delete_log, documents, uploads, uuid_doc, pipeline_log, chatVars>>

(***************************************************************************)
(* GET /documents                                                          *)
(***************************************************************************)
\* a query that would let the requested doc_type take precedence over the role
list_query_filter_first(role, doc_type) ==
    IF doc_type # "" THEN {doc_type}
    ELSE IF role = "technician" THEN {"sop"}
    ELSE IF role = "viewer" THEN {"sop", "manual"}
    ELSE DocTypes

\* query of list_documents: the doc_types its find matches; doc_type ""
\* stands for None, DocTypes for the empty query
list_query(role, doc_type) ==
    IF role = "technician" THEN {"sop"}
    ELSE IF role = "viewer" THEN {"sop", "manual"}
    ELSE IF doc_type # "" THEN {doc_type}
    ELSE DocTypes

StartListDocuments(p, sub, doc_type) ==
    /\ Free(p)
    /\ Enter(p, "list_documents", sub, "",
             [IdleReq EXCEPT !.pc = "find", !.doc_type = doc_type])
    /\ UNCHANGED <<users, uuid_user, delete_log, docVars, chatVars>>

\* docs = await db.documents.find(query, {"_id": 0}).to_list(1000)
ListDocumentsFind(p) ==
    /\ req[p].op = "list_documents" /\ req[p].pc = "find"
    /\ LET r == req[p] IN
       Complete(p, [r EXCEPT !.docs = {d \in DOMAIN documents :
                                         documents[d].doc_type \in
                                             list_query(r.user.role, r.doc_type)}],
                200, "")
    /\ UNCHANGED <<users, uuid_user, delete_log, docVars, chatVars>>

(***************************************************************************)
(* POST /chat                                                              *)
(***************************************************************************)
AllowedDocTypesNoTechnician(role) ==
    IF role = "viewer" THEN {"sop", "manual"} ELSE {}

\* doc_types of chat: {} stands for None (no restriction)
AllowedDocTypes(role) ==
    IF role = "technician" THEN {"sop"}
    ELSE IF role = "viewer" THEN {"sop", "manual"}
    ELSE {}

\* f"[From: {doc.metadata.get('title', 'Unknown')}]\n{doc.page_content}";
\* the chunk text is named by its document and position
ContextPart(e) ==
    [title |-> e.doc.title, doc_id |-> e.doc.doc_id, chunk_index |-> e.doc.chunk_index]

\* the text a join without the else branch would give: "" for no parts
ContextJoinOnly(context_parts) == [sentinel |-> FALSE, parts |-> context_parts]

\* "\n\n---\n\n".join(context_parts) if context_parts else "No relevant documents found."
Context(context_parts) ==
    IF context_parts # <<>> THEN [sentinel |-> FALSE, parts |-> context_parts]
    ELSE [sentinel |-> TRUE, parts |-> <<>>]

\* float(1 / (1 + score)), as numerator and denominator
RelevanceScore(score) == <<1, 1 + score>>

RECURSIVE SkipLocal(_)
\* the iterations of the result loop that await nothing: the placeholder is
\* skipped, a chunk of a document already seen only adds its context part
SkipLocal(r) ==
    IF r.i > Len(r.results) THEN r
    ELSE LET e == r.results[r.i] IN
         IF e.doc.doc_id = SYSTEM_DOC_ID THEN SkipLocal([r EXCEPT !.i = @ + 1])
         ELSE IF e.doc.doc_id \in r.seen
         THEN SkipLocal([r EXCEPT !.i = @ + 1,
                                  !.context_parts = Append(@, ContextPart(e))])
         ELSE r

\* where chat goes on after an iteration of the result loop
AfterResults(r) ==
    IF r.i <= Len(r.results) THEN "cite"
    ELSE IF r.carried_sid = 0 THEN "create_session"
    ELSE "save_user_msg"

\* request.message[:50] + "..." if len(request.message) > 50 else request.message
\* a title that would be cut from TITLE_MAX characters on
SessionTitleCutsAtMax(message) ==
    IF message.len >= TITLE_MAX
    THEN [text |-> message.text, len |-> TITLE_MAX, ellipsis |-> TRUE]
    ELSE [text |-> message.text, len |-> message.len, ellipsis |-> FALSE]

SessionTitle(message) ==
    IF message.len > TITLE_MAX
    THEN [text |-> message.text, len |-> TITLE_MAX, ellipsis |-> TRUE]
    ELSE [text |-> message.text, len |-> message.len, ellipsis |-> FALSE]

DegradedText(sources) ==
    [kind |-> "degraded", text |-> NoMessage,
     titles |-> [j \in 1..Len(sources) |-> sources[j].title]]

GenerateFails(message, sources, ok) ==
    IF ok THEN [ok |-> TRUE, content |-> [kind |-> "llm", text |-> message, titles |-> <<>>]]
    ELSE [ok |-> FALSE, content |-> NoContent]

\* the try / except around chat_llm.send_message: the LLM's answer, or the
\* text that lists the titles of the sources
GenerateResponse(message, sources, ok) ==
    IF ok THEN [ok |-> TRUE, content |-> [kind |-> "llm", text |-> message, titles |-> <<>>]]
    ELSE [ok |-> TRUE, content |-> DegradedText(sources)]

\* the datetime.now() calls made while the arguments of the database call
\* of step pc are built: two for session_doc, one for a message or the update
ClockReads(pc) ==
    IF pc = "create_session" THEN 2
    ELSE IF pc \in {"save_user_msg", "save_assistant_msg", "update_session"} THEN 1
    ELSE 0

\* chat resumes and runs up to the database call of step pc
ResumeAt(r, pc) == [r EXCEPT !.pc = pc, !.now = clock]

StartChat(p, sub, message, session_id, limit) ==
    /\ Free(p)
    /\ n_chats < limit
    /\ Enter(p, "chat", sub, "",
             [IdleReq EXCEPT !.pc = "search", !.message = message,
                             !.carried_sid = session_id, !.sid = session_id])
    /\ n_chats' = IF get_current_user(sub).ok THEN n_chats + 1 ELSE n_chats
    /\ UNCHANGED <<users, uuid_user, delete_log, docVars, chat_sessions, chat_messages, clock, uuid_sess>>

\* vector_manager.search(request.message, k=5, doc_types=doc_types)
ChatSearch(p, kind, env) ==
    /\ req[p].op = "chat" /\ req[p].pc = "search"
    /\ LET r == req[p]
           s == search(vector_store[WorkerOf(p)], faiss_index, kind, SEARCH_K,
                       AllowedDocTypes(r.user.role), env)
           w == (IF s.vs # vector_store[WorkerOf(p)] THEN {"index"} ELSE {})
                \cup (IF s.disk # faiss_index THEN {"disk"} ELSE {})
           lf == LoadFails(vector_store[WorkerOf(p)], faiss_index, env)
           r2 == SkipLocal([r EXCEPT !.results = s.results, !.i = 1, !.wrote = @ \cup w,
                                     !.load_failed = lf]) IN
       /\ vector_store' = [vector_store EXCEPT ![WorkerOf(p)] = s.vs]
       /\ faiss_index' = s.disk
       /\ IF s.ok
          THEN /\ Continue(p, ResumeAt(r2, AfterResults(r2)))
               /\ clock' = clock + ClockReads(AfterResults(r2))
          ELSE /\ Complete(p, [r EXCEPT !.wrote = @ \cup w, !.load_failed = lf,
                                        !.env = env],
                           500, "Internal Server Error")
               /\ UNCHANGED clock
    /\ UNCHANGED <<users, uuid_user, delete_log, documents, uploads, uuid_doc, pipeline_log,
                   chat_sessions, chat_messages, uuid_sess, n_chats>>

\* the iteration of the result loop for a document not seen yet:
\* db.documents.find_one({"id": doc_id})
\* a lookup that would answer for any id, with the defaults of .get()
doc_info_unchecked(d) ==
    IF d \in DOMAIN documents
    THEN [found |-> TRUE, title |-> documents[d].title, doc_type |-> documents[d].doc_type]
    ELSE [found |-> TRUE, title |-> "Unknown", doc_type |-> "other"]

\* doc_info = await db.documents.find_one({"id": doc_id}, {"_id": 0})
doc_info(d) ==
    IF d \in DOMAIN documents
    THEN [found |-> TRUE, title |-> documents[d].title, doc_type |-> documents[d].doc_type]
    ELSE [found |-> FALSE, title |-> "Unknown", doc_type |-> "other"]

ChatCite(p) ==
    /\ req[p].op = "chat" /\ req[p].pc = "cite"
    /\ LET r == req[p]
           e == r.results[r.i]
           d == e.doc.doc_id
           r1 == [r EXCEPT !.seen = @ \cup {d},
                           !.sources =
                              IF doc_info(d).found
                              THEN Append(@, [doc_id |-> d,
                                              title |-> doc_info(d).title,
                                              doc_type |-> doc_info(d).doc_type,
                                              relevance_score |-> RelevanceScore(e.score)])
                              ELSE @,
                           !.context_parts = Append(@, ContextPart(e)),
                           !.i = @ + 1]
           r2 == SkipLocal(r1) IN
       /\ Continue(p, ResumeAt(r2, AfterResults(r2)))
       /\ clock' = clock + ClockReads(AfterResults(r2))
    /\ UNCHANGED <<users, uuid_user, delete_log, docVars, chat_sessions, chat_messages, uuid_sess,
                   n_chats>>

\* if not session_id: db.chat_sessions.insert_one(session_doc)
ChatCreateSession(p) ==
    /\ req[p].op = "chat" /\ req[p].pc = "create_session"
    /\ LET r == req[p] IN
       /\ chat_sessions' =
             [s \in DOMAIN chat_sessions \cup {uuid_sess} |->
                IF s = uuid_sess
                THEN [user_id |-> r.user.id, title |-> SessionTitle(r.message),
                      created_at |-> isoformat(r.now),
                      updated_at |-> isoformat(r.now + 1),
                      message_count |-> 0]
                ELSE chat_sessions[s]]
       /\ Continue(p, [ResumeAt(r, "save_user_msg") EXCEPT
                           !.sid = uuid_sess, !.wrote = @ \cup {"session"}])
    /\ uuid_sess' = uuid_sess + 1
    /\ clock' = clock + ClockReads("save_user_msg")
    /\ UNCHANGED <<users, uuid_user, delete_log, docVars, chat_messages, n_chats>>

\* db.chat_messages.insert_one(user_msg)
ChatSaveUserMsg(p) ==
    /\ req[p].op = "chat" /\ req[p].pc = "save_user_msg"
    /\ LET r == req[p]
           m == [session_id |-> r.sid, role |-> "user",
                 content |-> [kind |-> "user", text |-> r.message, titles |-> <<>>],
                 sources |-> NoSources, timestamp |-> isoformat(r.now),
                 by |-> r.user.id] IN
       /\ chat_messages' = Append(chat_messages, m)
       /\ Continue(p, [r EXCEPT !.pc = "generate", !.inserted = Append(@, m),
                                !.wrote = @ \cup {"message"}])
    /\ UNCHANGED <<users, uuid_user, delete_log, docVars, chat_sessions, clock, uuid_sess, n_chats>>

\* chat_llm.send_message(user_message), which may raise
ChatGenerate(p, ok) ==
    /\ req[p].op = "chat" /\ req[p].pc = "generate"
    /\ LET r == req[p]
           g == GenerateResponse(r.message, r.sources, ok) IN
       IF g.ok
       THEN /\ Continue(p, [ResumeAt(r, "save_assistant_msg") EXCEPT
                               !.gen_ok = ok, !.content = g.content,
                               !.context = Context(r.context_parts)])
            /\ clock' = clock + ClockReads("save_assistant_msg")
       ELSE /\ Complete(p, [r EXCEPT !.gen_ok = ok, !.context = Context(r.context_parts)],
                        500, "Internal Server Error")
            /\ UNCHANGED clock
    /\ UNCHANGED <<users, uuid_user, delete_log, docVars, chat_sessions, chat_messages, uuid_sess,
                   n_chats>>

\* db.chat_messages.insert_one(assistant_msg)
ChatSaveAssistantMsg(p) ==
    /\ req[p].op = "chat" /\ req[p].pc = "save_assistant_msg"
    /\ LET r == req[p]
           m == [session_id |-> r.sid, role |-> "assistant", content |-> r.content,
                 sources |-> [present |-> TRUE, items |-> r.sources],
                 timestamp |-> isoformat(r.now), by |-> r.user.id] IN
       /\ chat_messages' = Append(chat_messages, m)
       /\ Continue(p, [ResumeAt(r, "update_session") EXCEPT !.inserted = Append(@, m)])
    /\ clock' = clock + ClockReads("update_session")
    /\ UNCHANGED <<users, uuid_user, delete_log, docVars, chat_sessions, uuid_sess, n_chats>>

\* an update that would write a count of its own instead of incrementing
SetMessageCount(count) == 2

\* {"$inc": {"message_count": 2}}, applied by the database in one operation
IncMessageCount(count) == count + 2

\* db.chat_sessions.update_one({"id": session_id}, {$set updated_at, $inc message_count})
\* and the ChatResponse
ChatUpdateSession(p) ==
    /\ req[p].op = "chat" /\ req[p].pc = "update_session"
    /\ LET r == req[p]
           hit == r.sid \in DOMAIN chat_sessions IN
       /\ chat_sessions' =
             IF hit
             THEN [chat_sessions EXCEPT ![r.sid] =
                      [@ EXCEPT !.updated_at = isoformat(r.now),
                                 !.message_count = IncMessageCount(@)]]
             ELSE chat_sessions
       /\ Complete(p, [r EXCEPT !.found = IF hit THEN "hit" ELSE "missing",
                                !.count_before = IF hit THEN chat_sessions[r.sid].message_count
                                                 ELSE 0,
                                !.count_after = IF hit THEN chat_sessions[r.sid].message_count + 2
                                                ELSE 0,
                                !.wrote = IF hit THEN @ \cup {"session"} ELSE @],
                   200, "")
    /\ UNCHANGED <<users, uuid_user, delete_log, docVars, chat_messages, clock, uuid_sess, n_chats>>

(***************************************************************************)
(* GET /chat/sessions/{session_id}/messages, DELETE /chat/sessions/{id}    *)
(***************************************************************************)
FindAnySession(session_id, user_id) == session_id \in DOMAIN chat_sessions

\* db.chat_sessions.find_one({"id": session_id, "user_id": current_user["id"]})
FindOwnedSession(session_id, user_id) ==
    /\ session_id \in DOMAIN chat_sessions
    /\ chat_sessions[session_id].user_id = user_id

\* whose session the id names when the lookup runs
LookupKind(session_id, user_id) ==
    IF session_id \notin DOMAIN chat_sessions THEN "missing"
    ELSE IF chat_sessions[session_id].user_id = user_id THEN "own"
    ELSE "other"

RECURSIVE SortByTimestamp(_)
\* .sort("timestamp", 1)
SortByTimestamp(msgs) ==
    IF msgs = <<>> THEN <<>>
    ELSE LET k == CHOOSE j \in 1..Len(msgs) :
                     \A l \in 1..Len(msgs) :
                        \/ StrBefore(msgs[j].timestamp, msgs[l].timestamp)
                        \/ (msgs[j].timestamp = msgs[l].timestamp /\ j <= l)
             rest == [l \in 1..(Len(msgs) - 1) |-> IF l < k THEN msgs[l] ELSE msgs[l + 1]]
         IN <<msgs[k]>> \o SortByTimestamp(rest)

MessagesOfAny(session_id) == chat_messages

\* db.chat_messages.find({"session_id": session_id})
MessagesOf(session_id) ==
    SelectSeq(chat_messages, LAMBDA m : m.session_id = session_id)

StartGetSessionMessages(p, sub, session_id) ==
    /\ Free(p)
    /\ Enter(p, "get_session_messages", sub, "",
             [IdleReq EXCEPT !.pc = "find", !.sid = session_id])
    /\ UNCHANGED <<users, uuid_user, delete_log, docVars, chatVars>>

GetSessionMessagesFind(p) ==
    /\ req[p].op = "get_session_messages" /\ req[p].pc = "find"
    /\ LET r == [req[p] EXCEPT !.found = LookupKind(req[p].sid, req[p].user.id)] IN
       IF FindOwnedSession(r.sid, r.user.id)
       THEN Continue(p, [r EXCEPT !.pc = "list"])
       ELSE Complete(p, r, 404, "Session not found")
    /\ UNCHANGED <<users, uuid_user, delete_log, docVars, chatVars>>

\* db.chat_messages.find({"session_id": session_id}).sort("timestamp", 1)
GetSessionMessagesList(p) ==
    /\ req[p].op = "get_session_messages" /\ req[p].pc = "list"
    /\ Complete(p, [req[p] EXCEPT !.listing = SortByTimestamp(MessagesOf(req[p].sid))],
                200, "")
    /\ UNCHANGED <<users, uuid_user, delete_log, docVars, chatVars>>

StartDeleteSession(p, sub, session_id) ==
    /\ Free(p)
    /\ Enter(p, "delete_session", sub, "",
             [IdleReq EXCEPT !.pc = "find", !.sid = session_id])
    /\ UNCHANGED <<users, uuid_user, delete_log, docVars, chatVars>>

DeleteSessionFind(p) ==
    /\ req[p].op = "delete_session" /\ req[p].pc = "find"
    /\ LET r == [req[p] EXCEPT !.found = LookupKind(req[p].sid, req[p].user.id)] IN
       IF FindOwnedSession(r.sid, r.user.id)
       THEN Continue(p, [r EXCEPT !.pc = "delete_messages"])
       ELSE Complete(p, r, 404, "Session not found")
    /\ UNCHANGED <<users, uuid_user, delete_log, docVars, chatVars>>

\* a delete_session whose delete_many would match the requester's messages
\* of every session
DeleteSessionMessagesOfUser(p) ==
    /\ req[p].op = "delete_session" /\ req[p].pc = "delete_messages"
    /\ LET r == req[p] IN
       /\ chat_messages' = SelectSeq(chat_messages, LAMBDA m : m.by # r.user.id)
       /\ Continue(p, [r EXCEPT !.pc = "delete_session", !.wrote = @ \cup {"message"}])
    /\ UNCHANGED <<users, uuid_user, delete_log, docVars, chat_sessions, clock, uuid_sess, n_chats>>

\* a delete_session that would go on to the record without the delete_many
DeleteSessionMessagesSkipped(p) ==
    /\ req[p].op = "delete_session" /\ req[p].pc = "delete_messages"
    /\ Continue(p, [req[p] EXCEPT !.pc = "delete_session"])
    /\ UNCHANGED <<users, uuid_user, delete_log, docVars, chatVars>>

\* db.chat_messages.delete_many({"session_id": session_id})
DeleteSessionMessages(p) ==
    /\ req[p].op = "delete_session" /\ req[p].pc = "delete_messages"
    /\ LET r == req[p] IN
       /\ chat_messages' = SelectSeq(chat_messages, LAMBDA m : m.session_id # r.sid)
       /\ Continue(p, [r EXCEPT !.pc = "delete_session",
                                !.wrote = IF MessagesOf(r.sid) # <<>>
                                          THEN @ \cup {"message"} ELSE @])
    /\ UNCHANGED <<users, uuid_user, delete_log, docVars, chat_sessions, clock, uuid_sess, n_chats>>

\* db.chat_sessions.delete_one({"id": session_id})
DeleteSessionRecord(p) ==
    /\ req[p].op = "delete_session" /\ req[p].pc = "delete_session"
    /\ LET r == req[p] IN
       /\ chat_sessions' = [s \in DOMAIN chat_sessions \ {r.sid} |-> chat_sessions[s]]
       /\ Complete(p, [r EXCEPT !.wrote = IF r.sid \in DOMAIN chat_sessions
                                          THEN @ \cup {"session"} ELSE @],
                   200, "Session deleted")
       /\ delete_log' = [delete_log EXCEPT !.session[r.sid] = @ + 1]
    /\ UNCHANGED <<users, uuid_user, docVars, chat_messages, clock, uuid_sess, n_chats>>

(***************************************************************************)
(* GET /users, PUT /users/{user_id}, DELETE /users/{user_id}               *)
(***************************************************************************)
StartListUsers(p, sub) ==
    /\ Free(p)
    /\ Enter(p, "list_users", sub, "manage_users", [IdleReq EXCEPT !.pc = "find"])
    /\ UNCHANGED <<users, uuid_user, delete_log, docVars, chatVars>>

\* db.users.find({})
ListUsersFind(p) ==
    /\ req[p].op = "list_users" /\ req[p].pc = "find"
    /\ Complete(p, [req[p] EXCEPT !.user_list = users], 200, "")
    /\ UNCHANGED <<users, uuid_user, delete_log, docVars, chatVars>>

StartUpdateUser(p, sub, user_id, update) ==
    /\ Free(p)
    /\ Enter(p, "update_user", sub, "manage_users",
             [IdleReq EXCEPT !.pc = "find", !.target = user_id, !.update = update])
    /\ UNCHANGED <<users, uuid_user, delete_log, docVars, chatVars>>

\* user = db.users.find_one({"id": user_id})
UpdateUserFind(p) ==
    /\ req[p].op = "update_user" /\ req[p].pc = "find"
    /\ LET r == req[p] IN
       IF r.target \notin DOMAIN users THEN Complete(p, r, 404, "User not found")
       ELSE IF r.update.fields # {} THEN Continue(p, [r EXCEPT !.pc = "update_one"])
       ELSE Continue(p, [r EXCEPT !.pc = "refetch"])
    /\ UNCHANGED <<users, uuid_user, delete_log, docVars, chatVars>>

\* update_data applied to a user record
ApplyUpdate(u, update) ==
    [u EXCEPT !.role = IF "role" \in update.fields THEN update.role ELSE @,
              !.is_active = IF "is_active" \in update.fields THEN update.is_active ELSE @]

\* db.users.update_one({"id": user_id}, {"$set": update_data})
UpdateUserSet(p) ==
    /\ req[p].op = "update_user" /\ req[p].pc = "update_one"
    /\ LET r == req[p]
           hit == r.target \in DOMAIN users IN
       /\ users' = IF hit THEN [users EXCEPT ![r.target] = ApplyUpdate(@, r.update)]
                   ELSE users
       /\ Continue(p, [r EXCEPT !.pc = "refetch",
                                !.wrote = IF hit /\ ApplyUpdate(users[r.target], r.update)
                                                      # users[r.target]
                                          THEN @ \cup {"user"} ELSE @])
    /\ UNCHANGED <<uuid_user, delete_log, docVars, chatVars>>

\* updated_user = db.users.find_one(...); UserResponse(**updated_user)
UpdateUserRefetch(p) ==
    /\ req[p].op = "update_user" /\ req[p].pc = "refetch"
    /\ LET r == req[p] IN
       IF r.target \in DOMAIN users
       THEN Complete(p, [r EXCEPT !.user_list = [u \in {r.target} |-> users[u]]], 200, "")
       ELSE Complete(p, r, 500, "Internal Server Error")
    /\ UNCHANGED <<users, uuid_user, delete_log, docVars, chatVars>>

StartDeleteUser(p, sub, user_id) ==
    /\ Free(p)
    /\ Enter(p, "delete_user", sub, "manage_users",
             [IdleReq EXCEPT !.pc = "delete_one", !.target = user_id])
    /\ UNCHANGED <<users, uuid_user, delete_log, docVars, chatVars>>

\* the check against deleting oneself, then db.users.delete_one({"id": user_id})
DeleteUserRemove(p) ==
    /\ req[p].op = "delete_user" /\ req[p].pc = "delete_one"
    /\ LET r == req[p] IN
       IF r.target = r.user.id
       THEN /\ Complete(p, r, 400, "Cannot delete yourself")
            /\ UNCHANGED users
       ELSE IF r.target \notin DOMAIN users
       THEN /\ Complete(p, r, 404, "User not found")
            /\ UNCHANGED users
       ELSE /\ users' = [u \in DOMAIN users \ {r.target} |-> users[u]]
            /\ Complete(p, [r EXCEPT !.wrote = @ \cup {"user"}], 200, "User deleted")
    /\ UNCHANGED <<uuid_user, delete_log, docVars, chatVars>>

\* login: find_one by email, verify_password, the is_active check, then the
\* token; the user of email sub presents a password that verifies or not
Login(p, sub, password_ok) ==
    /\ Free(p)
    /\ LET r == [IdleReq EXCEPT !.op = "login", !.sub = sub] IN
       IF sub \notin DOMAIN users \/ ~password_ok
       THEN Complete(p, r, 401, "Invalid credentials")
       ELSE IF ~users[sub].is_active
       THEN Complete(p, r, 401, "Account is deactivated")
       ELSE Complete(p, [r EXCEPT !.user = [id |-> sub, role |-> users[sub].role]],
                     200, "")
    /\ UNCHANGED <<users, uuid_user, delete_log, docVars, chatVars>>

(***************************************************************************)
(* POST /auth/register                                                     *)
(***************************************************************************)
\* str(uuid.uuid4()) for a user: an id no user has had
UserId(n) == "u_reg" \o ToString(n)

\* db.users.find_one({"email": email}): is there a record with this email
FindByEmail(email) == \E u \in DOMAIN users : users[u].email = email

RegistrationsInFlight == Cardinality({q \in AllProcs : req[q].op = "register"})

\* the request arrives; the handler takes no token
StartRegister(p, email, role, limit) ==
    /\ Free(p)
    /\ uuid_user - 1 + RegistrationsInFlight < limit
    /\ Continue(p, [IdleReq EXCEPT !.op = "register", !.pc = "find",
                                    !.email = email, !.role = role])
    /\ UNCHANGED <<users, uuid_user, delete_log, docVars, chatVars>>

\* existing = await db.users.find_one({"email": user.email})
RegisterFind(p) ==
    /\ req[p].op = "register" /\ req[p].pc = "find"
    /\ LET r == req[p] IN
       IF FindByEmail(r.email)
       THEN Complete(p, [r EXCEPT !.found = "hit"], 400, "Email already registered")
       ELSE Continue(p, [r EXCEPT !.pc = "insert_one", !.found = "missing"])
    /\ UNCHANGED <<users, uuid_user, delete_log, docVars, chatVars>>

\* await db.users.insert_one(user_doc), then the token and the response
RegisterInsert(p) ==
    /\ req[p].op = "register" /\ req[p].pc = "insert_one"
    /\ LET r == req[p]
           user_id == UserId(uuid_user)
           user_doc == [email |-> r.email, role |-> r.role, is_active |-> TRUE] IN
       /\ users' = [u \in DOMAIN users \cup {user_id} |->
                       IF u = user_id THEN user_doc ELSE users[u]]
       /\ Complete(p, [r EXCEPT !.sub = user_id,
                                !.user = [id |-> user_id, role |-> r.role],
                                !.wrote = @ \cup {"user"}],
                   200, "")
    /\ uuid_user' = uuid_user + 1
    /\ UNCHANGED <<delete_log, docVars, chatVars>>

(***************************************************************************)
(* A process restart: the module-level vector_manager is built anew and    *)
(* the requests in flight are gone; everything durable stays.              *)
(***************************************************************************)
Restart ==
    /\ vector_store[1].present
    /\ vector_store' = [vector_store EXCEPT ![1] = NoStore]
    /\ req' = [p \in AllProcs |-> IF WorkerOf(p) = 1 THEN IdleReq ELSE req[p]]
    /\ response' = IdleReq
    /\ UNCHANGED <<users, uuid_user, delete_log, documents, uploads, faiss_index, uuid_doc, pipeline_log,
                   chatVars>>

(***************************************************************************)
(* The initial state: an installation with four registered users, one per  *)
(* role, no documents, no index on disk, no sessions.                      *)
(***************************************************************************)
Init ==
    /\ users = InitialUsers
    /\ uuid_user = 1
    /\ documents = <<>>
    /\ uploads = {}
    /\ faiss_index = NoStore
    /\ vector_store = [w \in Workers |-> NoStore]
    /\ chat_sessions = <<>>
    /\ chat_messages = <<>>
    /\ clock = 1
    /\ uuid_doc = 1
    /\ uuid_sess = 1
    /\ n_chats = 0
    /\ req = [p \in AllProcs |-> IdleReq]
    /\ response = IdleReq
    /\ pipeline_log = [d \in 1..MaxDocs |-> <<>>]
    /\ delete_log = [document |-> [d \in 1..MaxDocs |-> 0],
                     session |-> [sid \in 1..MaxTurns |-> 0]]

\* the files of the upload requests: one per way of being rejected, and
\* texts of every number of chunks
Files ==
    {[ext |-> ".exe", extract_ok |-> TRUE, text |-> NoText],
     [ext |-> ".pdf", extract_ok |-> FALSE, text |-> NoText]}
    \cup {[ext |-> ".txt", extract_ok |-> TRUE, text |-> t] : t \in Texts}

(***************************************************************************)
(* The document pipeline: uploads with every failure, deletions, restarts. *)
(***************************************************************************)
NextDocs ==
    \/ \E p \in {1}, sub \in {"u_admin"}, f \in Files, dt \in {"sop"} :
          StartUpload(p, sub, f, dt, "Pump manual", MaxDocs)
    \/ \E p \in Procs : UploadValidate(p)
    \/ \E p \in Procs, env \in Envs : UploadAddDocument(p, env)
    \/ \E p \in Procs, ok \in BOOLEAN : UploadStoreFile(p, ok)
    \/ \E p \in Procs, ok \in BOOLEAN : UploadPersistRecord(p, ok)
    \/ \E p \in {1}, sub \in {"u_admin"}, d \in 1..MaxDocs :
          StartDeleteDocument(p, sub, d)
    \/ \E p \in Procs : DeleteDocumentFind(p)
    \/ \E p \in Procs : DeleteDocumentRemove(p)
    \/ Restart

SpecDocs == Init /\ [][NextDocs]_vars

(***************************************************************************)
(* Retrieval: a corpus of valid documents of several types is built first  *)
(* (uploads that succeed, deletions, restarts between requests), then      *)
(* users of every role chat in new sessions; requests one at a time.       *)
(***************************************************************************)
\* files whose text is cut into several chunks
GoodFiles == {[ext |-> ".txt", extract_ok |-> TRUE,
               text |-> [kind |-> "words", nchunks |-> MaxChunks]]}

Messages == {[text |-> "torque for flange bolts", len |-> 23]}

AllOk == [load_ok |-> TRUE, embed_ok |-> TRUE, save_ok |-> TRUE]

\* no chat request has been made yet
BuildingCorpus == n_chats = 0

NextChat ==
    \/ /\ BuildingCorpus
       /\ \E f \in GoodFiles, dt \in {"sop", "manual", "compliance"} :
             StartUpload(1, "u_eng", f, dt, "Pump manual", MaxCorpus)
    \/ UploadValidate(1)
    \/ UploadAddDocument(1, AllOk)
    \/ UploadStoreFile(1, TRUE)
    \/ UploadPersistRecord(1, TRUE)
    \/ /\ BuildingCorpus
       /\ \E d \in 1..MaxCorpus : StartDeleteDocument(1, "u_admin", d)
    \/ DeleteDocumentFind(1)
    \/ DeleteDocumentRemove(1)
    \/ \E sub \in UserIds, m \in Messages : StartChat(1, sub, m, 0, MaxChats)
    \/ \E kind \in OrderKinds, env \in Envs : ChatSearch(1, kind, env)
    \/ ChatCite(1)
    \/ ChatCreateSession(1)
    \/ ChatSaveUserMsg(1)
    \/ ChatGenerate(1, TRUE)
    \/ ChatSaveAssistantMsg(1)
    \/ ChatUpdateSession(1)
    \/ BuildingCorpus /\ Free(1) /\ Restart

SpecChat == Init /\ [][NextChat]_vars

(***************************************************************************)
(* Sessions: a corpus of sops is built first, then an engineer and a       *)
(* technician chat in new sessions and under session ids they carry (an    *)
(* id issued before, their own or not, deleted or not, or an id that was   *)
(* never issued), list the messages of sessions and delete sessions;       *)
(* requests one at a time.                                                 *)
(***************************************************************************)
\* the title given to the upload that draws document id d
TitleOf(d) == IF d % 2 = 1 THEN "Pump manual" ELSE "Valve SOP"

Chatters == {"u_eng", "u_tech"}

\* the session ids a client can present: ids issued so far and -1, an id
\* that is never issued
KnownIds == 1..(uuid_sess - 1) \cup {-1}

NextSessions ==
    \/ /\ BuildingCorpus
       /\ \E f \in GoodFiles :
             StartUpload(1, "u_eng", f, "sop", TitleOf(uuid_doc), MaxCorpus)
    \/ UploadValidate(1)
    \/ UploadAddDocument(1, AllOk)
    \/ UploadStoreFile(1, TRUE)
    \/ UploadPersistRecord(1, TRUE)
    \/ \E sub \in Chatters, m \in Messages, sid \in KnownIds \cup {0} :
          StartChat(1, sub, m, sid, MaxTurns)
    \/ ChatSearch(1, "oldest_first", AllOk)
    \/ ChatCite(1)
    \/ ChatCreateSession(1)
    \/ ChatSaveUserMsg(1)
    \/ \E ok \in BOOLEAN : ChatGenerate(1, ok)
    \/ ChatSaveAssistantMsg(1)
    \/ ChatUpdateSession(1)
    \/ \E sub \in Chatters, sid \in KnownIds : StartGetSessionMessages(1, sub, sid)
    \/ GetSessionMessagesFind(1)
    \/ GetSessionMessagesList(1)
    \/ \E sub \in Chatters, sid \in KnownIds : StartDeleteSession(1, sub, sid)
    \/ DeleteSessionFind(1)
    \/ DeleteSessionMessages(1)
    \/ DeleteSessionRecord(1)

SpecSessions == Init /\ [][NextSessions]_vars

(***************************************************************************)
(* Authorisation: users of every role call the permission-gated            *)
(* operations while the admin promotes, deactivates and deletes users;     *)
(* requests one at a time.                                                 *)
(***************************************************************************)
Updates ==
    {NoUpdate,
     [fields |-> {"role"}, role |-> "engineer", is_active |-> TRUE],
     [fields |-> {"is_active"}, role |-> "viewer", is_active |-> FALSE],
     [fields |-> {"is_active"}, role |-> "viewer", is_active |-> TRUE]}

Targets == {"u_tech", "u_view"}

NextAuth ==
    \/ \E sub \in UserIds, f \in GoodFiles :
          StartUpload(1, sub, f, "manual", "Pump manual", MaxDocs)
    \/ UploadValidate(1)
    \/ UploadAddDocument(1, AllOk)
    \/ UploadStoreFile(1, TRUE)
    \/ UploadPersistRecord(1, TRUE)
    \/ \E sub \in UserIds, d \in 1..MaxDocs : StartDeleteDocument(1, sub, d)
    \/ DeleteDocumentFind(1)
    \/ DeleteDocumentRemove(1)
    \/ \E sub \in UserIds : StartListUsers(1, sub)
    \/ ListUsersFind(1)
    \/ \E sub \in UserIds, t \in Targets, u \in Updates : StartUpdateUser(1, sub, t, u)
    \/ UpdateUserFind(1)
    \/ UpdateUserSet(1)
    \/ UpdateUserRefetch(1)
    \/ \E sub \in UserIds, t \in Targets \cup {"u_admin"} : StartDeleteUser(1, sub, t)
    \/ DeleteUserRemove(1)
    \/ \E sub \in UserIds, ok \in BOOLEAN : Login(1, sub, ok)

SpecAuth == Init /\ [][NextAuth]_vars

(***************************************************************************)
(* Concurrent deletions: an admin uploads documents and an engineer opens  *)
(* sessions on coroutine 1, while deletions of those documents and         *)
(* sessions are served by both coroutines and interleave.                  *)
(***************************************************************************)
NextDeleteRace ==
    \/ \E f \in GoodFiles : StartUpload(1, "u_admin", f, "sop", TitleOf(uuid_doc), MaxRace)
    \/ UploadValidate(1)
    \/ UploadAddDocument(1, AllOk)
    \/ UploadStoreFile(1, TRUE)
    \/ UploadPersistRecord(1, TRUE)
    \/ \E p \in Procs, d \in 1..MaxRace : StartDeleteDocument(p, "u_admin", d)
    \/ \E p \in Procs : DeleteDocumentFind(p)
    \/ \E p \in Procs : DeleteDocumentRemove(p)
    \/ \E m \in Messages : StartChat(1, "u_eng", m, 0, MaxRace)
    \/ ChatSearch(1, "oldest_first", AllOk)
    \/ ChatCite(1)
    \/ ChatCreateSession(1)
    \/ ChatSaveUserMsg(1)
    \/ ChatGenerate(1, TRUE)
    \/ ChatSaveAssistantMsg(1)
    \/ ChatUpdateSession(1)
    \/ \E p \in Procs, sid \in KnownIds : StartDeleteSession(p, "u_eng", sid)
    \/ \E p \in Procs : DeleteSessionFind(p)
    \/ \E p \in Procs : DeleteSessionMessages(p)
    \/ \E p \in Procs : DeleteSessionRecord(p)

SpecDeleteRace == Init /\ [][NextDeleteRace]_vars

(***************************************************************************)
(* Scenario: chat requests of one user on both coroutines, each opening a  *)
(* session or continuing one that exists, interleaved at every await,      *)
(* over a corpus uploaded before the first of them.                        *)
(***************************************************************************)
IssuedIds == 1..(uuid_sess - 1)

NextSessionRace ==
    \/ /\ n_chats = 0
       /\ \E f \in GoodFiles :
             StartUpload(1, "u_eng", f, "sop", TitleOf(uuid_doc), MaxRace)
    \/ UploadValidate(1)
    \/ UploadAddDocument(1, AllOk)
    \/ UploadStoreFile(1, TRUE)
    \/ UploadPersistRecord(1, TRUE)
    \/ \E p \in Procs, m \in Messages, sid \in IssuedIds \cup {0} :
          StartChat(p, "u_eng", m, sid, MaxRaceChats)
    \/ \E p \in Procs : ChatSearch(p, "oldest_first", AllOk)
    \/ \E p \in Procs : ChatCite(p)
    \/ \E p \in Procs : ChatCreateSession(p)
    \/ \E p \in Procs : ChatSaveUserMsg(p)
    \/ \E p \in Procs : ChatGenerate(p, TRUE)
    \/ \E p \in Procs : ChatSaveAssistantMsg(p)
    \/ \E p \in Procs : ChatUpdateSession(p)

SpecSessionRace == Init /\ [][NextSessionRace]_vars

(***************************************************************************)
(* Scenario: two server processes share the durable index.  Coroutine 1 of *)
(* the first process and the coroutine of the second serve uploads and     *)
(* chats of an engineer, interleaved at every await; each process loads    *)
(* its handle on its first use of the index.                               *)
(***************************************************************************)
Servers == {1, Peer}

NextWorkers ==
    \/ \E p \in Servers, f \in GoodFiles :
          StartUpload(p, "u_eng", f, "sop", TitleOf(uuid_doc), MaxDocs)
    \/ \E p \in Servers : UploadValidate(p)
    \/ \E p \in Servers : UploadAddDocument(p, AllOk)
    \/ \E p \in Servers : UploadStoreFile(p, TRUE)
    \/ \E p \in Servers : UploadPersistRecord(p, TRUE)
    \/ \E p \in Servers, m \in Messages : StartChat(p, "u_eng", m, 0, MaxRace)
    \/ \E p \in Servers : ChatSearch(p, "oldest_first", AllOk)
    \/ \E p \in Servers : ChatCite(p)
    \/ \E p \in Servers : ChatCreateSession(p)
    \/ \E p \in Servers : ChatSaveUserMsg(p)
    \/ \E p \in Servers : ChatGenerate(p, TRUE)
    \/ \E p \in Servers : ChatSaveAssistantMsg(p)
    \/ \E p \in Servers : ChatUpdateSession(p)

SpecWorkers == Init /\ [][NextWorkers]_vars

(***************************************************************************)
(* Scenario: documents of several types are uploaded, then users of every  *)
(* role list the documents, with and without a doc_type filter, and chat;  *)
(* requests one at a time.                                                 *)
(***************************************************************************)
ListFilters == {"", "sop", "compliance"}

NextListing ==
    \/ /\ BuildingCorpus
       /\ \E f \in GoodFiles, dt \in {"sop", "manual", "compliance"} :
             StartUpload(1, "u_eng", f, dt, TitleOf(uuid_doc), MaxCorpus)
    \/ UploadValidate(1)
    \/ UploadAddDocument(1, AllOk)
    \/ UploadStoreFile(1, TRUE)
    \/ UploadPersistRecord(1, TRUE)
    \/ \E sub \in UserIds, dt \in ListFilters : StartListDocuments(1, sub, dt)
    \/ ListDocumentsFind(1)
    \/ \E sub \in UserIds, m \in Messages : StartChat(1, sub, m, 0, MaxChats)
    \/ \E kind \in OrderKinds : ChatSearch(1, kind, AllOk)
    \/ ChatCite(1)
    \/ ChatCreateSession(1)
    \/ ChatSaveUserMsg(1)
    \/ ChatGenerate(1, TRUE)
    \/ ChatSaveAssistantMsg(1)
    \/ ChatUpdateSession(1)

SpecListing == Init /\ [][NextListing]_vars

(***************************************************************************)
(* Scenario: documents of several types are uploaded and search is called  *)
(* with every k up to MaxK, with and without allowed doc types, under both *)
(* rankings.                                                               *)
(***************************************************************************)
AllowedSets == {{}, {"sop"}, {"sop", "manual"}}

NextSearch ==
    \/ \E f \in GoodFiles, dt \in {"sop", "manual", "compliance"} :
          StartUpload(1, "u_eng", f, dt, TitleOf(uuid_doc), MaxCorpus)
    \/ UploadValidate(1)
    \/ UploadAddDocument(1, AllOk)
    \/ UploadStoreFile(1, TRUE)
    \/ UploadPersistRecord(1, TRUE)
    \/ \E kind \in OrderKinds, k \in 1..MaxK, doc_types \in AllowedSets :
          SearchCall(1, kind, k, doc_types, AllOk)

SpecSearch == Init /\ [][NextSearch]_vars

(***************************************************************************)
(* Scenario: two users chat with messages shorter than, as long as and     *)
(* longer than the title limit, in new sessions and in sessions that       *)
(* exist; requests one at a time.                                          *)
(***************************************************************************)
TitleMessages ==
    {[text |-> "torque for flange bolts", len |-> 23],
     [text |-> "which torque applies to the flange bolts of pump 3", len |-> TITLE_MAX],
     [text |-> "which torque applies to the flange bolts of pump 12", len |-> TITLE_MAX + 1]}

NextTitles ==
    \/ /\ BuildingCorpus
       /\ \E f \in GoodFiles :
             StartUpload(1, "u_eng", f, "sop", TitleOf(uuid_doc), MaxRace)
    \/ UploadValidate(1)
    \/ UploadAddDocument(1, AllOk)
    \/ UploadStoreFile(1, TRUE)
    \/ UploadPersistRecord(1, TRUE)
    \/ \E sub \in Chatters, m \in TitleMessages, sid \in IssuedIds \cup {0} :
          StartChat(1, sub, m, sid, MaxTurns)
    \/ ChatSearch(1, "oldest_first", AllOk)
    \/ ChatCite(1)
    \/ ChatCreateSession(1)
    \/ ChatSaveUserMsg(1)
    \/ ChatGenerate(1, TRUE)
    \/ ChatSaveAssistantMsg(1)
    \/ ChatUpdateSession(1)

SpecTitles == Init /\ [][NextTitles]_vars

(***************************************************************************)
(* Scenario: the admin uploads documents and changes the roles of the      *)
(* technician and the viewer, who upload, list the documents and chat with *)
(* the tokens they hold; requests one at a time.                           *)
(***************************************************************************)
RoleUpdates ==
    {[fields |-> {"role"}, role |-> r, is_active |-> TRUE] : r \in {"engineer", "viewer"}}

NextRoles ==
    \/ \E sub \in Targets \cup {"u_admin"}, f \in GoodFiles, dt \in {"sop", "compliance"} :
          StartUpload(1, sub, f, dt, TitleOf(uuid_doc), MaxCorpus)
    \/ UploadValidate(1)
    \/ UploadAddDocument(1, AllOk)
    \/ UploadStoreFile(1, TRUE)
    \/ UploadPersistRecord(1, TRUE)
    \/ \E sub \in Targets \cup {"u_admin"}, t \in Targets, u \in RoleUpdates :
          StartUpdateUser(1, sub, t, u)
    \/ UpdateUserFind(1)
    \/ UpdateUserSet(1)
    \/ UpdateUserRefetch(1)
    \/ \E sub \in Targets, dt \in ListFilters : StartListDocuments(1, sub, dt)
    \/ ListDocumentsFind(1)
    \/ \E sub \in Targets, m \in Messages : StartChat(1, sub, m, 0, MaxChats)
    \/ ChatSearch(1, "oldest_first", AllOk)
    \/ ChatCite(1)
    \/ ChatCreateSession(1)
    \/ ChatSaveUserMsg(1)
    \/ ChatGenerate(1, TRUE)
    \/ ChatSaveAssistantMsg(1)
    \/ ChatUpdateSession(1)

SpecRoles == Init /\ [][NextRoles]_vars

(***************************************************************************)
(* Scenario: registrations served by both coroutines, with an email that   *)
(* is on record or a new one, interleaved at every await.                  *)
(***************************************************************************)
RegEmails == {EmailOf("u_eng"), "ann@plant.com", "bob@plant.com"}

NextRegister ==
    \/ \E p \in Procs, e \in RegEmails, role \in {"viewer", "engineer"} :
          StartRegister(p, e, role, MaxRegs)
    \/ \E p \in Procs : RegisterFind(p)
    \/ \E p \in Procs : RegisterInsert(p)

SpecRegister == Init /\ [][NextRegister]_vars

(***************************************************************************)
(* Scenario: uploads and chats of an engineer whose index calls meet every *)
(* outcome of the embedding service, the index load and the index save,    *)
(* with restarts between requests; requests one at a time.                 *)
(***************************************************************************)
NextEmbed ==
    \/ \E f \in GoodFiles : StartUpload(1, "u_eng", f, "sop", TitleOf(uuid_doc), MaxCorpus)
    \/ UploadValidate(1)
    \/ \E env \in Envs : UploadAddDocument(1, env)
    \/ UploadStoreFile(1, TRUE)
    \/ UploadPersistRecord(1, TRUE)
    \/ \E m \in Messages : StartChat(1, "u_eng", m, 0, MaxTurns)
    \/ \E env \in Envs : ChatSearch(1, "oldest_first", env)
    \/ ChatCite(1)
    \/ ChatCreateSession(1)
    \/ ChatSaveUserMsg(1)
    \/ ChatGenerate(1, TRUE)
    \/ ChatSaveAssistantMsg(1)
    \/ ChatUpdateSession(1)
    \/ Free(1) /\ Restart

SpecEmbed == Init /\ [][NextEmbed]_vars

(***************************************************************************)
(* Properties of the document pipeline (SpecDocs).                         *)
(***************************************************************************)
EntriesOf(store, d) == SelectSeq(store.entries, LAMBDA e : e.doc_id = d)

\* C4: whenever no upload is in flight, every entry of the semantic index
\* (in memory and durable) has the doc_id of an existing document record or
\* of the system placeholder.
C4_IndexEntriesHaveRecords ==
    (\A p \in Procs : req[p].op # "upload") =>
        \A e \in Range(vector_store[1].entries) \cup Range(faiss_index.entries) :
            e.doc_id = SYSTEM_DOC_ID \/ e.doc_id \in DOMAIN documents

\* C5: for every existing document record, chunk_count is the number of
\* entries with its doc_id in the index that search operates on (the loaded
\* in-memory index), also after restarts and index loads that fall back.
C5_ChunkCountIsRetrievable ==
    vector_store[1].present =>
        \A d \in DOMAIN documents :
            documents[d].chunk_count = Len(EntriesOf(vector_store[1], d))

UploadStepOrder == <<"index_add", "index_save", "store_file", "persist_record">>

\* C6: the upload steps run in the order index add, index save, store raw
\* file, persist record; nothing runs after a step that failed; and a
\* document record exists only for a doc_id all four steps succeeded for.
C6_RecordOnlyAfterAllSteps ==
    /\ \A d \in DOMAIN pipeline_log :
          LET log == pipeline_log[d] IN
          /\ Len(log) <= Len(UploadStepOrder)
          /\ \A i \in 1..Len(log) : log[i].step = UploadStepOrder[i]
          /\ \A i \in 1..(Len(log) - 1) : log[i].ok
    /\ \A d \in DOMAIN documents :
          /\ Len(pipeline_log[d]) = Len(UploadStepOrder)
          /\ \A i \in 1..Len(UploadStepOrder) : pipeline_log[d][i].ok

\* one upload went through and has its record, another failed at some step
\* and left no record
C6_Witness ==
    /\ \E d \in DOMAIN documents : documents[d].chunk_count >= 1
    /\ \E d \in DOMAIN pipeline_log :
          /\ d \notin DOMAIN documents
          /\ pipeline_log[d] # <<>>
          /\ ~pipeline_log[d][Len(pipeline_log[d])].ok

\* the file has an unsupported extension, cannot be extracted, or its
\* extracted text is empty or whitespace only
Rejectable(file) ==
    \/ file.ext \notin {".pdf", ".docx", ".txt"}
    \/ ~file.extract_ok
    \/ file.text.kind \in {"empty", "blank"}

C7_RejectedUploadState ==
    /\ \A p \in Procs :
          req[p].op = "upload" /\ Rejectable(req[p].file) =>
              req[p].pc = "validate" /\ req[p].wrote = {}
    /\ response.op = "upload" /\ response.user # NoUser /\ Rejectable(response.file) =>
          response.status = 400 /\ response.wrote = {}

C7_RejectedUploadStep ==
    \A p \in Procs :
        /\ req[p].op = "upload" /\ Rejectable(req[p].file)
        /\ \/ req'[p].op = "upload" /\ req'[p] # req[p]
           \/ response'.op = "upload" /\ response'.file = req[p].file
        => UNCHANGED <<vector_store, faiss_index, uploads, documents>>

\* C7: an upload of a file with an unsupported extension, a file whose text
\* cannot be extracted, or a file whose extracted text is empty or whitespace
\* only is rejected (400), and no step of it changes the in-memory index, the
\* durable index, the stored raw files or the document records.
C7_RejectedUploadChangesNothing ==
    []C7_RejectedUploadState /\ [][C7_RejectedUploadStep]_vars

\* a whitespace-only file has just been rejected while the index holds a document
C7_Witness ==
    /\ response.op = "upload" /\ response.status = 400
    /\ response.file.text.kind = "blank"
    /\ response.detail = "No text content found in file"
    /\ \E d \in DOMAIN documents : Len(EntriesOf(vector_store[1], d)) >= 1

(***************************************************************************)
(* Properties of retrieval (SpecChat).                                     *)
(***************************************************************************)
\* the doc_types a role may be shown citations of
C1_Visible(role) ==
    CASE role = "technician" -> {"sop"}
      [] role = "viewer" -> {"sop", "manual"}
      [] OTHER -> DocTypes

SourcesVisible(sources, role) ==
    \A j \in 1..Len(sources) : sources[j].doc_type \in C1_Visible(role)

\* C1: every citation a chat request of a technician returns (and stores)
\* has doc_type sop, every citation of a viewer's request has doc_type sop or
\* manual, and the search of an admin's or engineer's request is not
\* filtered: it returns the k best entries of the whole index.
C1_CitationsRespectRole ==
    /\ response.op = "chat" /\ response.status = 200 =>
          /\ SourcesVisible(response.sources, response.user.role)
          /\ response.user.role \in {"admin", "engineer"} =>
                Len(response.results) = Min(SEARCH_K, Len(vector_store[1].entries))
    /\ \A j \in 1..Len(chat_messages) :
          chat_messages[j].sources.present =>
              SourcesVisible(chat_messages[j].sources.items,
                             users[chat_messages[j].by].role)

\* a technician is answered with a citation of a sop while a document of
\* another type is on record and in the index
C1_Witness ==
    /\ response.op = "chat" /\ response.status = 200
    /\ response.user.role = "technician"
    /\ Len(response.sources) = 1
    /\ response.sources[1].doc_type = "sop"
    /\ \E d \in DOMAIN documents :
          /\ documents[d].doc_type # "sop"
          /\ Len(EntriesOf(vector_store[1], d)) >= 1

\* C10: the citations of a chat response contain no two entries with the
\* same doc_id, and every document that has a chunk among the search results
\* appears in exactly one citation.
C10_OneCitationPerDocument ==
    response.op = "chat" /\ response.status = 200 =>
        /\ \A i, j \in 1..Len(response.sources) :
              i # j => response.sources[i].doc_id # response.sources[j].doc_id
        /\ \A e \in Range(response.results) :
              e.doc.doc_id # SYSTEM_DOC_ID =>
                  Cardinality({j \in 1..Len(response.sources) :
                                  response.sources[j].doc_id = e.doc.doc_id}) = 1

(***************************************************************************)
(* Properties of sessions (SpecSessions).                                  *)
(***************************************************************************)
\* C2: every message stored under an existing session was written by a chat
\* request of the session's owner, and a chat request that ends under a
\* session owned by another user has written nothing (no message, no change
\* of message_count or updated_at).
C2_SessionNeverShared ==
    /\ \A j \in 1..Len(chat_messages) :
          chat_messages[j].session_id \in DOMAIN chat_sessions =>
              chat_messages[j].by = chat_sessions[chat_messages[j].session_id].user_id
    /\ /\ response.op = "chat"
       /\ response.sid \in DOMAIN chat_sessions
       /\ chat_sessions[response.sid].user_id # response.user.id
       => response.wrote = {}

SessionOps == {"get_session_messages", "delete_session"}

C3_NotOwnerState ==
    /\ \A p \in Procs :
          req[p].op \in SessionOps /\ req[p].pc # "find" => req[p].found = "own"
    /\ response.op \in SessionOps /\ response.found \in {"other", "missing"} =>
          /\ response.status = 404
          /\ response.detail = "Session not found"
          /\ response.listing = <<>>
          /\ response.wrote = {}

C3_NotOwnerStep ==
    response'.op \in SessionOps /\ response'.found \in {"other", "missing"} =>
        UNCHANGED <<chat_sessions, chat_messages>>

\* C3: listing the messages of a session or deleting a session, asked by a
\* user who does not own it, ends as for an id that names no session (404
\* "Session not found", never a 403), returns no message, goes no further
\* than the lookup and leaves the sessions and the messages unchanged.
C3_NotOwnerIsNotFound ==
    []C3_NotOwnerState /\ [][C3_NotOwnerStep]_vars

\* a user has just asked to delete another user's session that has messages
C3_Witness ==
    /\ response.op = "delete_session" /\ response.found = "other"
    /\ response.status = 404
    /\ response.sid \in DOMAIN chat_sessions
    /\ chat_sessions[response.sid].message_count >= 2
    /\ MessagesOf(response.sid) # <<>>

TitlesOf(sources) == [j \in 1..Len(sources) |-> sources[j].title]

GatedOps == {"upload", "delete_document", "list_users", "update_user", "delete_user"}

\* the permission each gated operation needs
Needs(op) ==
    CASE op = "upload" -> "upload_docs"
      [] op = "delete_document" -> "delete_docs"
      [] OTHER -> "manage_users"

Lacks(user, op) == Needs(op) \notin ROLE_PERMISSIONS[user.role]

C8_RefusedState ==
    /\ \A p \in Procs : req[p].op \in GatedOps => ~Lacks(req[p].user, req[p].op)
    /\ response.op \in GatedOps =>
          /\ response.user = NoUser => response.status = 401
          /\ response.user # NoUser /\ Lacks(response.user, response.op) =>
                /\ response.status = 403
                /\ response.wrote = {}
          /\ response.user # NoUser /\ ~Lacks(response.user, response.op) =>
                response.status \notin {401, 403}

C8_RefusedStep ==
    response'.op \in GatedOps /\ response'.status \in {401, 403} =>
        UNCHANGED <<users, uuid_user, delete_log, documents, uploads, faiss_index, vector_store,
                    chat_sessions, chat_messages, pipeline_log>>

\* C8: a permission-gated operation asked by an authenticated user whose
\* role lacks the permission ends with 403 (an unauthenticated one with 401,
\* one that has the permission with neither), never enters the handler and
\* changes no state.
C8_MissingPermissionIsRefused ==
    []C8_RefusedState /\ [][C8_RefusedStep]_vars

\* a viewer has just been refused an upload while documents and other users exist
C8_Witness ==
    /\ response.op = "upload" /\ response.user.role = "viewer"
    /\ response.status = 403
    /\ response.detail = "Permission denied: upload_docs"
    /\ documents # <<>>

(***************************************************************************)
(* Properties of session continuity (SpecSessions).                        *)
(***************************************************************************)
StoredUnder(sid) == SelectSeq(chat_messages, LAMBDA m : m.session_id = sid)

Ascending(msgs) ==
    \A j \in 1..(Len(msgs) - 1) : StrBefore(msgs[j].timestamp, msgs[j + 1].timestamp)

Exchanges(msgs) ==
    /\ Len(msgs) % 2 = 0
    /\ \A j \in 1..Len(msgs) :
          msgs[j].role = IF j % 2 = 1 THEN "user" ELSE "assistant"

\* a chat or a deletion is under way on the session
InFlightOn(sid) ==
    \E p \in Procs : req[p].op \in {"chat", "delete_session"} /\ req[p].sid = sid

C12_AtMostOneDeleteSucceeds ==
    /\ response.op \in {"delete_document", "delete_session"} /\ response.status = 404 =>
          response.wrote = {}
    /\ response.op \in {"delete_document", "delete_session"} /\ response.status = 200 =>
          response.wrote # {}
    /\ \A d \in DOMAIN delete_log.document : delete_log.document[d] <= 1
    /\ \A sid \in DOMAIN delete_log.session : delete_log.session[sid] <= 1

(***************************************************************************)
(* Properties of the session records (SpecSessions, SpecSessionRace).      *)
(***************************************************************************)
\* C13: every stored chat message has the session_id of an existing session
\* record: no chat request stores messages under a session id that was never
\* created or has been deleted.
C13_MessagesHaveSessions ==
    \A j \in 1..Len(chat_messages) :
        chat_messages[j].session_id \in DOMAIN chat_sessions

UpdatedAtNotEarlier ==
    \A sid \in DOMAIN chat_sessions :
        ~StrBefore(chat_sessions[sid].updated_at, chat_sessions[sid].created_at)

UpdatedAtStep ==
    \A sid \in DOMAIN chat_sessions \cap DOMAIN chat_sessions' :
        ~StrBefore(chat_sessions'[sid].updated_at, chat_sessions[sid].updated_at)

\* C14: for every session, under any interleaving of chat requests on it,
\* the stored updated_at never decreases from one state to the next and is
\* never earlier than created_at.
C14_UpdatedAtNeverDecreases == []UpdatedAtNotEarlier /\ [][UpdatedAtStep]_vars


(***************************************************************************)
(* Properties of the shared index (SpecWorkers).                           *)
(***************************************************************************)
\* C15: index-mutating operations are mutually exclusive under any
\* interleaving of concurrent uploads and chats, also of different processes
\* that share the durable index.  An add-and-save section is one step of
\* one process here, so the exclusion is stated by what it guarantees: once
\* no upload is in flight, the durable index holds the chunks of every
\* upload that returned success (every document on record).
C15_DurableIndexKeepsEveryUpload ==
    (\A p \in AllProcs : req[p].op # "upload") =>
        \A d \in DOMAIN documents :
            Len(EntriesOf(faiss_index, d)) = documents[d].chunk_count

\* the record of the request coroutine p serves, after a step of it
After(p) == IF req'[p].op = "idle" THEN response' ELSE req'[p]

C16_LoadFailureStep ==
    \A p \in AllProcs :
        /\ req[p].op \in {"upload", "chat"} /\ req[p].pc \in {"add_document", "search"}
        /\ req'[p] # req[p]
        /\ After(p).load_failed
        => LET store == vector_store'[WorkerOf(p)] IN
           /\ store.present
           /\ EntriesOf(store, SYSTEM_DOC_ID) = <<Placeholder>>
           /\ \A e \in Range(store.entries) : e.doc_id \in {SYSTEM_DOC_ID, req[p].doc_id}
           /\ req[p].op = "chat" => After(p).status # 500

\* C16: when loading an existing durable index fails, the initialisation
\* raises no error to the caller and yields an index that holds exactly the
\* system placeholder (to which an upload then adds its own chunks), so the
\* upload or chat that triggered the load proceeds.
C16_LoadFailureFallsBack == [][C16_LoadFailureStep]_vars

(***************************************************************************)
(* Properties of the index handle (SpecChat).                              *)
(***************************************************************************)
Extends(old, new) ==
    /\ Len(old) <= Len(new)
    /\ \A i \in 1..Len(old) : new[i] = old[i]

IndexNeverEmpty ==
    /\ \A w \in Workers : vector_store[w].present => Len(vector_store[w].entries) >= 1
    /\ faiss_index.present => Len(faiss_index.entries) >= 1

IndexHandleStep ==
    \A w \in Workers :
        vector_store[w].present =>
            \/ /\ vector_store'[w].present
               /\ Extends(vector_store[w].entries, vector_store'[w].entries)
            \* the process is gone
            \/ /\ ~vector_store'[w].present
               /\ \A p \in AllProcs : WorkerOf(p) = w => req'[p] = IdleReq

\* C17: from the first use of the index in a process on, the index is never
\* structurally empty: the handle is initialised once, every later add and
\* search works on that handle (entries are only appended, until the
\* process ends), and the handle and the durable index always hold at least
\* one entry.
C17_IndexNeverEmpty == []IndexNeverEmpty /\ [][IndexHandleStep]_vars

\* a search has been answered from the handle that two uploads added their
\* chunks to, after the placeholder
C17_Witness ==
    /\ response.op = "chat" /\ response.status = 200
    /\ Len(response.results) >= 2
    /\ vector_store[1].present
    /\ vector_store[1].entries[1] = Placeholder
    /\ \A d \in 1..MaxCorpus : Len(EntriesOf(vector_store[1], d)) = MaxChunks

(***************************************************************************)
(* Properties of citations (SpecChat).                                     *)
(***************************************************************************)
CitationStep ==
    \A p \in AllProcs :
        req[p].op = "chat" /\ req'[p].op = "chat" /\ req'[p].sources # req[p].sources =>
            /\ req[p].pc = "cite"
            /\ Len(req'[p].sources) = Len(req[p].sources) + 1
            /\ Extends(req[p].sources, req'[p].sources)
            /\ LET c == req'[p].sources[Len(req'[p].sources)] IN
               /\ c.doc_id \in DOMAIN documents
               /\ c.title = documents[c.doc_id].title
               /\ c.doc_type = documents[c.doc_id].doc_type

NoCitationOfDeleted ==
    response.op = "chat" /\ response.status = 200 =>
        \A j \in 1..Len(response.sources) :
            delete_log.document[response.sources[j].doc_id] = 0

\* C18: every citation of a chat has the doc_id of a document whose record
\* existed when the citation was built, and the title and doc_type of that
\* record; and once a delete_document for a document has succeeded, no chat
\* made later, of any role, returns a citation for it.
C18_CitationsHaveRecords == []NoCitationOfDeleted /\ [][CitationStep]_vars

\* an admin is answered with a citation of one document while chunks of a
\* deleted document are still in the index that was searched
C18_Witness ==
    /\ response.op = "chat" /\ response.status = 200
    /\ response.user.role = "admin"
    /\ Len(response.sources) = 1
    /\ \E d \in 1..MaxCorpus :
          /\ delete_log.document[d] = 1
          /\ d \notin DOMAIN documents
          /\ \E e \in Range(response.results) : e.doc.doc_id = d

(***************************************************************************)
(* Properties of deactivated and deleted users (SpecAuth).                 *)
(***************************************************************************)
Active(sub) == sub \in DOMAIN users /\ users[sub].is_active

\* a request enters its handler only with the token of an active user
EntersOnlyActive ==
    \A p \in AllProcs : Free(p) /\ ~Free(p)' => Active(req'[p].sub)

\* a request or a login that ends where it starts, made for a user who is
\* deactivated or deleted, ends with 401 and changes nothing
RefusedInactive ==
    /\ req' = req
    /\ response'.pc = "done"
    /\ ~Active(response'.sub)
    => /\ response'.status = 401
       /\ response'.wrote = {}
       /\ UNCHANGED <<users, uuid_user, delete_log, docVars, chatVars>>

\* C19: once a user is deactivated or deleted, every later request with the
\* token they obtained before, and every later login of a deactivated user,
\* fails with 401 and changes no state, until the user is reactivated.
C19_InactiveUserIsRefused == [][EntersOnlyActive /\ RefusedInactive]_vars

\* the login of a deactivated technician has just been refused while
\* documents and an active admin exist
C19_Witness ==
    /\ response.op = "login" /\ response.status = 401
    /\ response.detail = "Account is deactivated"
    /\ response.sub = "u_tech"
    /\ documents # <<>>
    /\ Active("u_admin")

(***************************************************************************)
(* Properties of deleted sessions (SpecSessions).                          *)
(***************************************************************************)
Deleted(sid) == sid \in DOMAIN delete_log.session /\ delete_log.session[sid] >= 1

\* C20: after a delete_session by the owner has returned success, with no
\* other request on that session in flight, no session record and no
\* message with that id remain; the record never exists again; and every
\* later request to list its messages or to delete it, by any user, ends
\* with 404.
C20_DeletedSessionIsGone ==
    /\ \A sid \in DOMAIN delete_log.session :
          Deleted(sid) => sid \notin DOMAIN chat_sessions
    /\ response.op = "delete_session" /\ response.status = 200 =>
          /\ response.found = "own"
          /\ Deleted(response.sid)
          /\ StoredUnder(response.sid) = <<>>
    /\ response.op \in SessionOps /\ Deleted(response.sid) =>
          \/ /\ response.status = 404
             /\ response.detail = "Session not found"
             /\ response.listing = <<>>
          \* the deletion itself
          \/ /\ response.op = "delete_session" /\ response.status = 200
             /\ "session" \in response.wrote
    /\ \A p \in Procs :
          req[p].op \in SessionOps /\ Deleted(req[p].sid) => req[p].pc = "find"

\* the owner deleted a session that had an exchange; a later request to
\* list its messages has just ended with 404 while another session exists
C20_Witness ==
    /\ response.op = "get_session_messages" /\ response.status = 404
    /\ Deleted(response.sid)
    /\ response.user.id = "u_eng"
    /\ chat_sessions # <<>>

(***************************************************************************)
(* Properties of document listing (SpecListing).                           *)
(***************************************************************************)
\* the doc_types a listing of this role with this filter may contain
C21_Listed(role, doc_type) ==
    IF role \in {"technician", "viewer"} \/ doc_type = "" THEN C1_Visible(role)
    ELSE {doc_type}

Nearest(entries, kind, n) ==
    [i \in 1..Min(n, Len(entries)) |-> entries[Order(Len(entries), kind)[i]]]

DocsOf(results) == [i \in 1..Len(results) |-> results[i].doc]

\* C22: a search with allowed doc types returns the first k, nearest first,
\* of those among the 2k nearest index entries whose doc_type is allowed
\* (fewer than k when fewer of the 2k match, whatever lies further away); a
\* search without allowed doc types returns the k nearest entries; a result
\* never has more than k entries.
C22_SearchFiltersCandidates ==
    response.op = "search" /\ response.status = 200 =>
        LET q == response.query
            entries == vector_store[1].entries IN
        /\ Len(response.results) <= q.k
        /\ \A i \in 1..(Len(response.results) - 1) :
              response.results[i].score < response.results[i + 1].score
        /\ q.doc_types = {} => DocsOf(response.results) = Nearest(entries, q.kind, q.k)
        /\ q.doc_types # {} =>
              DocsOf(response.results) =
                  Take(SelectSeq(Nearest(entries, q.kind, 2 * q.k),
                                 LAMBDA e : e.doc_type \in q.doc_types), q.k)

\* a filtered search came back empty although an entry of an allowed type
\* lies beyond the 2k nearest
C22_Witness ==
    /\ response.op = "search" /\ response.status = 200
    /\ response.query.doc_types = {"sop"}
    /\ response.results = <<>>
    /\ \E e \in Range(vector_store[1].entries) : e.doc_type = "sop"

(***************************************************************************)
(* Properties of the retrieval context (SpecListing).                      *)
(***************************************************************************)
NotSystem(results) == SelectSeq(results, LAMBDA e : e.doc.doc_id # SYSTEM_DOC_ID)

\* C23: the retrieval context of a chat is never the empty string: it has
\* one part, prefixed with the title of the chunk's source, for every search
\* result that is not the system placeholder (every chunk of a document,
\* cited or not), in result order; it is the no-relevant-documents sentinel
\* exactly when there is no such result; and the placeholder gives neither
\* a context part nor a citation.
C23_ContextCoversResults ==
    response.op = "chat" /\ response.status = 200 =>
        LET c == response.context
            shown == NotSystem(response.results) IN
        /\ c # NoContext
        /\ c.parts = [i \in 1..Len(shown) |-> ContextPart(shown[i])]
        /\ c.sentinel <=> shown = <<>>
        /\ \A i \in 1..Len(c.parts) : c.parts[i].doc_id # SYSTEM_DOC_ID
        /\ \A j \in 1..Len(response.sources) :
              response.sources[j].doc_id # SYSTEM_DOC_ID

\* an engineer's search returned the placeholder and both chunks of one
\* document: the context has the two chunks, the citations that document once
C23_Witness ==
    /\ response.op = "chat" /\ response.status = 200
    /\ \E e \in Range(response.results) : e.doc.doc_id = SYSTEM_DOC_ID
    /\ Len(response.context.parts) = 2
    /\ response.context.parts[1].doc_id = response.context.parts[2].doc_id
    /\ Len(response.sources) = 1

(***************************************************************************)
(* Properties of the durable index (SpecDocs).                             *)
(***************************************************************************)
\* C24: whenever no add is in progress (an add-and-save is one step), the
\* durable index holds exactly the entries of the in-memory index of the
\* process: creation, fallback after a failed load, and add each save the
\* index before they return.
C24_DurableIndexMirrorsMemory ==
    \A w \in Workers :
        vector_store[w].present =>
            /\ faiss_index.present
            /\ faiss_index.entries = vector_store[w].entries

(***************************************************************************)
(* Properties of chunk numbering (SpecDocs).                               *)
(***************************************************************************)
Indexes == {vector_store[w] : w \in Workers} \cup {faiss_index}

WellNumbered(store) ==
    /\ \A i, j \in 1..Len(store.entries) :
          i # j => <<store.entries[i].doc_id, store.entries[i].chunk_index>>
                   # <<store.entries[j].doc_id, store.entries[j].chunk_index>>
    /\ \A d \in {e.doc_id : e \in Range(store.entries)} :
          \A i \in 1..Len(EntriesOf(store, d)) :
              EntriesOf(store, d)[i].chunk_index = i - 1
    \* an index holds all the chunks add_document counted, or none
    /\ \A d \in DOMAIN documents :
          Len(EntriesOf(store, d)) \in {0, documents[d].chunk_count}

\* C25: no two entries of an index share a (doc_id, chunk_index) pair, and
\* the entries of every document that add_document added are numbered
\* 0 .. count-1 in the order of the chunks, count being the value
\* add_document returned.
C25_ChunksAreNumbered ==
    /\ \A store \in Indexes : WellNumbered(store)
    /\ \A p \in AllProcs :
          req[p].op = "upload" /\ req[p].pc \in {"store_file", "persist_record"} =>
              /\ req[p].chunk_count = req[p].file.text.nchunks
              /\ Len(EntriesOf(vector_store[WorkerOf(p)], req[p].doc_id))
                 = req[p].chunk_count

\* two documents of two chunks each are on record and in the index
C25_Witness ==
    /\ Cardinality(DOMAIN documents) = 2
    /\ \A d \in DOMAIN documents :
          /\ documents[d].chunk_count = 2
          /\ Len(EntriesOf(vector_store[1], d)) = 2
          /\ Len(EntriesOf(faiss_index, d)) = 2

(***************************************************************************)
(* Properties of session creation (SpecTitles).                            *)
(***************************************************************************)
\* the title the claim gives a new session for this message
C26_Title(message) ==
    IF message.len <= 50
    THEN [text |-> message.text, len |-> message.len, ellipsis |-> FALSE]
    ELSE [text |-> message.text, len |-> 50, ellipsis |-> TRUE]

NewSessionState ==
    response.op = "chat" /\ response.status = 200 /\ response.carried_sid = 0 =>
        /\ response.sid \in DOMAIN chat_sessions
        /\ chat_sessions[response.sid].user_id = response.user.id
        /\ chat_sessions[response.sid].title = C26_Title(response.message)

SessionStep ==
    LET new == DOMAIN chat_sessions' \ DOMAIN chat_sessions IN
    /\ Cardinality(new) <= 1
    /\ \A sid \in new :
          /\ chat_sessions'[sid].message_count = 0
          /\ \E p \in AllProcs :
                /\ req[p].op = "chat" /\ req[p].carried_sid = 0
                /\ req[p].sid = 0 /\ req'[p].sid = sid
                /\ chat_sessions'[sid].user_id = req[p].user.id
    /\ \A p \in AllProcs :
          req[p].op = "chat" /\ req[p].sid # 0 /\ req'[p] # req[p] => new = {}
    /\ \A sid \in DOMAIN chat_sessions \cap DOMAIN chat_sessions' :
          /\ chat_sessions'[sid].title = chat_sessions[sid].title
          /\ chat_sessions'[sid].user_id = chat_sessions[sid].user_id
          /\ chat_sessions'[sid].created_at = chat_sessions[sid].created_at

\* C26: a chat without session_id creates exactly one session, owned by the
\* requester, with message_count 0 at creation and the message as title when
\* it has at most 50 characters, otherwise its first 50 characters and the
\* ellipsis; a chat with a session_id creates none; and no chat changes the
\* title, user_id or created_at of a session that exists.
C26_SessionCreation == []NewSessionState /\ [][SessionStep]_vars

\* a session opened with a message of exactly 50 characters has the whole
\* message as title, after a second exchange by its owner
C26_Witness ==
    /\ response.op = "chat" /\ response.status = 200
    /\ response.carried_sid # 0 /\ response.found = "hit"
    /\ chat_sessions[response.sid].message_count = 4
    /\ chat_sessions[response.sid].title.len = 50
    /\ ~chat_sessions[response.sid].title.ellipsis
    /\ response.message.len = 51

(***************************************************************************)
(* Properties of stored messages (SpecSessions).                           *)
(***************************************************************************)
SourcesOnAssistantOnly ==
    /\ \A j \in 1..Len(chat_messages) :
          chat_messages[j].sources.present <=> chat_messages[j].role = "assistant"
    /\ response.op = "chat" /\ response.status = 200 =>
          /\ Len(response.inserted) = 2
          /\ response.inserted[2].sources.items = response.sources

MessagesStep ==
    \/ chat_messages' = chat_messages
    \* one message is appended
    \/ /\ Len(chat_messages') = Len(chat_messages) + 1
       /\ Extends(chat_messages, chat_messages')
    \* delete_session removes the messages of its session
    \/ \E p \in AllProcs :
          /\ req[p].op = "delete_session"
          /\ req[p].found = "own"
          /\ chat_messages' =
                SelectSeq(chat_messages, LAMBDA m : m.session_id # req[p].sid)

\* C27: chat messages are append-only: no operation changes a stored
\* message; only delete_session removes messages, all those of its session
\* and none of another; sources are stored on assistant messages only and
\* are the citations returned for that exchange.
C27_MessagesAppendOnly == []SourcesOnAssistantOnly /\ [][MessagesStep]_vars

\* a session with an exchange has just been deleted while the exchange of
\* another session stays stored
C27_Witness ==
    /\ response.op = "delete_session" /\ response.status = 200
    /\ "message" \in response.wrote
    /\ StoredUnder(response.sid) = <<>>
    /\ \E sid \in DOMAIN chat_sessions : Len(StoredUnder(sid)) = 2

(***************************************************************************)
(* Properties of embedding failures (SpecEmbed).                           *)
(***************************************************************************)
\* p takes the step that calls the index
IndexStep(p) ==
    /\ req[p].op \in {"upload", "chat"} /\ req[p].pc \in {"add_document", "search"}
    /\ req'[p] # req[p]

EmbedFailureStep ==
    \A p \in AllProcs :
        IndexStep(p) /\ ~After(p).env.embed_ok =>
            /\ req'[p] = IdleReq
            /\ response'.status = 500
            /\ UNCHANGED <<documents, uploads, chat_sessions, chat_messages, faiss_index>>
            \* the handle is as before, or has just been loaded from the
            \* durable index
            /\ \/ UNCHANGED vector_store
               \/ /\ ~vector_store[WorkerOf(p)].present
                  /\ vector_store'[WorkerOf(p)] = Store(faiss_index.entries)

\* whatever came before, the index call of a request that has reached it
\* succeeds when every collaborator answers
RecoveredCall ==
    \A p \in AllProcs :
        LET r == req[p]
            vs == vector_store[WorkerOf(p)] IN
        /\ r.op = "upload" /\ r.pc = "add_document" =>
              LET a == add_document(vs, faiss_index, r.doc_id, r.title,
                                    r.file.text.nchunks, r.doc_type, NoEnv) IN
              a.ok /\ a.count = r.file.text.nchunks
        /\ r.op = "chat" /\ r.pc = "search" =>
              search(vs, faiss_index, "oldest_first", SEARCH_K,
                     AllowedDocTypes(r.user.role), NoEnv).ok

ChatInFlightOn(sid) == \E p \in AllProcs : req[p].op = "chat" /\ req[p].sid = sid

ChatsInFlight == {p \in AllProcs : req[p].op = "chat"}

UserMessagesUnder(sid) ==
    Len(SelectSeq(StoredUnder(sid), LAMBDA m : m.role = "user"))

RECURSIVE CountSum(_)
CountSum(sids) ==
    IF sids = {} THEN 0
    ELSE LET sid == CHOOSE x \in sids : TRUE IN
         chat_sessions[sid].message_count + CountSum(sids \ {sid})

\* C29: under any interleaving of chat requests on a session that is not
\* deleted, message_count never exceeds the number of messages stored for
\* the session, and once the requests on it have completed it equals that
\* number, which is twice the number of requests (one user message each);
\* with every request completed the counts add up to twice the requests
\* served.
C29_NoIncrementLost ==
    /\ \A sid \in DOMAIN chat_sessions :
          /\ chat_sessions[sid].message_count <= Len(StoredUnder(sid))
          /\ ~ChatInFlightOn(sid) =>
                /\ chat_sessions[sid].message_count = Len(StoredUnder(sid))
                /\ chat_sessions[sid].message_count = 2 * UserMessagesUnder(sid)
    /\ ChatsInFlight = {} => CountSum(DOMAIN chat_sessions) = 2 * n_chats

\* two requests on one session have interleaved, the one that started
\* second finishing last, and the count has both increments
C29_Witness ==
    /\ ChatsInFlight = {}
    /\ n_chats = MaxRaceChats
    /\ DOMAIN chat_sessions = {1}
    /\ chat_sessions[1].message_count = 2 * MaxRaceChats
    /\ chat_messages[2].role = "user"

(***************************************************************************)
(* Properties of role changes (SpecRoles).                                 *)
(***************************************************************************)
\* the permission a handler starts with ("" for none)
Gate(op) ==
    CASE op = "upload" -> "upload_docs"
      [] op = "delete_document" -> "delete_docs"
      [] op \in {"list_users", "update_user", "delete_user"} -> "manage_users"
      [] OTHER -> ""

\* the response in hand was authorised and filtered by this role
ServedAs(role) ==
    /\ response.user.role = role
    /\ Gate(response.op) # "" =>
          (response.status = 403 <=> Gate(response.op) \notin ROLE_PERMISSIONS[role])
    /\ response.op = "list_documents" /\ response.status = 200 =>
          response.docs = {d \in DOMAIN documents :
                              documents[d].doc_type \in C21_Listed(role, response.doc_type)}
    /\ response.op = "chat" /\ response.status = 200 =>
          SourcesVisible(response.sources, role)

\* C30: every request is authorised and its documents filtered by the role
\* stored for the user when it is made, whatever role the user had when the
\* token was issued: after an admin has changed the role, requests with the
\* old token are served under the new role.
C30_StoredRoleDecides ==
    /\ \A p \in AllProcs :
          req[p].op # "idle" /\ req[p].sub \in DOMAIN users =>
              req[p].user.role = users[req[p].sub].role
    /\ /\ response.op \notin {"idle", "login"}
       /\ response.status # 401
       /\ response.sub \in DOMAIN users
       => ServedAs(users[response.sub].role)

\* the viewer, promoted to engineer since registering, has just been listed
\* a compliance document
C30_Witness ==
    /\ response.op = "list_documents" /\ response.status = 200
    /\ response.sub = "u_view"
    /\ InitialUsers["u_view"].role = "viewer"
    /\ users["u_view"].role = "engineer"
    /\ \E d \in response.docs : documents[d].doc_type = "compliance"

(***************************************************************************)
(* Properties of registration (SpecRegister).                              *)
(***************************************************************************)
EmailsDistinct ==
    \A a, b \in DOMAIN users : a # b => users[a].email # users[b].email

\* a registration is refused exactly when it finds its email on record, and
\* then creates nothing
RefusedWhenRegistered ==
    \A p \in AllProcs :
        req[p].op = "register" /\ req[p].pc = "find" /\ req'[p] # req[p] =>
            /\ UNCHANGED <<users, uuid_user>>
            /\ FindByEmail(req[p].email) <=>
                  (req'[p] = IdleReq /\ response'.status = 400)

\* C31: no two user records ever share an email: a registration whose
\* email is already on record is refused and creates no user, also when
\* registrations with the same email are served concurrently.
C31_EmailsAreUnique == []EmailsDistinct /\ [][RefusedWhenRegistered]_vars

\* the part that holds: a registration that finds its email on record ends
\* with 400 and creates no user
C31_RefusedWhenRegistered == [][RefusedWhenRegistered]_vars

====
